---- MODULE Spec2Model ----
(***************************************************************************)
(* Authentication and session core: signed tokens (auth/jwt.ts), the       *)
(* session registry (auth/session.ts) and the request middleware           *)
(* (api/middleware/auth-middleware.ts).                                    *)
(*                                                                         *)
(* Strings that matter are modelled as sequences of items: an item is a    *)
(* literal character [ch |-> c] or an opaque base64url blob [b64 |-> x]    *)
(* (a blob holds no "." and no space).  JS null / undefined is Null, and   *)
(* NoString where a string is expected.                                    *)
(***************************************************************************)
EXTENDS Integers, Sequences, FiniteSets, TLC

VARIABLES
    now,            \* Date.now(), milliseconds
    ticks,          \* clock advances so far
    uuids,          \* number of crypto.randomUUID() values drawn so far
    cur,            \* the token last minted by generate*Token, with its payload
    vr,             \* the verifyToken call just made and what it returned
    req,            \* the request the middleware is working on (Null: none)
    res,            \* the response sent for it (Null: none yet)
    pipe,           \* the route's handler chain and how far req has come in it
    rateLimitStore, \* Map key -> {count, resetAt}
    win,            \* per key: the checks made while the current entry's window is open
    chk,            \* the last rateLimitAuth check
    sessions,       \* rows of the sessions table
    issued,         \* the token pairs handed to callers so far, in order
    calls,          \* the SessionManager.refresh calls in flight
    ncalls,         \* refresh calls that have sent their SELECT so far
    ret,            \* the refresh call that has just returned, with its result
    rotated,        \* tokens for which some refresh call has returned a pair
    perm,           \* the permission check just made and how it ended
    stored,         \* every (session id, refresh token) the table has ever held
    destroyed,      \* ids of the sessions that destroy has removed
    resp,           \* the AuthController.login call just made and its response
    users,          \* rows of the users table
    nlogins,        \* AuthController.login calls made so far
    refusals,       \* the refusals login has answered so far, with their cause
    hashed,         \* the hashPassword call just made and the hash it gave
    cmp,            \* the comparePassword call just made and how it ended
    connected,      \* DatabaseConnection.connected
    fault           \* the storage statement that has just failed, and whose it was

vars == <<now, ticks, uuids, cur, vr, req, res, pipe, rateLimitStore, win, chk,
          sessions, issued, calls, ncalls, ret, rotated,
          perm, stored, destroyed, resp, users, nlogins, refusals, hashed, cmp,
          connected, fault>>

tokenVars   == <<cur, vr>>
gateVars    == <<req, res, pipe>>
rateVars    == <<rateLimitStore, win, chk>>
sessionVars == <<sessions, issued, calls, ncalls, ret, rotated>>
permVars    == <<perm>>
auditVars   == <<stored, destroyed>>
loginVars   == <<resp, users, nlogins, refusals, hashed, cmp>>
dbVars      == <<connected, fault>>

Null == [null |-> TRUE]

\* null / undefined where a string is expected: no string holds this item.
NoString == <<Null>>

-----------------------------------------------------------------------------
(* config/env.ts *)

JWT_SECRET == "dev-secret-change-in-production"
JWT_EXPIRY == 900
REFRESH_EXPIRY == 604800

(* types/index.ts *)

UserRole == {"admin", "moderator", "user", "guest"}

-----------------------------------------------------------------------------
(* Bounds *)

MaxTicks == 2       \* clock advances per behaviour
MaxMints == 2       \* generate*Token calls per behaviour
MaxSessionTicks == 1    \* clock advances per behaviour of the session registry
MaxCalls == 2       \* refresh calls that get past verifyToken per behaviour
MaxRateTicks == 2   \* clock advances per behaviour of the rate limiter
MaxChecks == 6      \* rateLimitAuth checks per key while one window is open

-----------------------------------------------------------------------------
(* auth/jwt.ts *)

Ch(c) == [ch |-> c]
Dot == Ch(".")

\* String.prototype.split("."): the pieces between the dots.
RECURSIVE split(_)
split(s) ==
    IF s = <<>> THEN << <<>> >>
    ELSE LET rest == split(Tail(s)) IN
         IF Head(s) = Dot THEN << <<>> >> \o rest
         ELSE << <<Head(s)>> \o Head(rest) >> \o Tail(rest)

\* JSON.stringify of an object: its members in insertion order.
JSONstringifyPayload(p) ==
    [json |-> << <<"sub", p.sub>>, <<"email", p.email>>, <<"role", p.role>>,
                 <<"iat", p.iat>>, <<"exp", p.exp>>, <<"jti", p.jti>> >>]

JSONstringifyHeader == [json |-> << <<"alg", "HS256">>, <<"typ", "JWT">> >>]

\* JSON.parse succeeds on JSON text only; on anything else it throws.
IsJSON(text) == "json" \in DOMAIN text

\* The JSON text "null".
JSONnull == [json |-> <<>>, null |-> TRUE]

\* JSON.parse of an object text: member name -> value, the last duplicate
\* wins; of the text "null": null.
JSONparse(text) ==
    IF "null" \in DOMAIN text THEN Null
    ELSE LET ps == text.json
             last(k) == CHOOSE i \in DOMAIN ps :
                           ps[i][1] = k /\ \A j \in DOMAIN ps : j > i => ps[j][1] # k
         IN [k \in {ps[i][1] : i \in DOMAIN ps} |-> ps[last(k)][2]]

\* base64url(input): one blob, no padding characters.
base64url(text) == << [b64 |-> text] >>

\* Buffer.from(s, "base64url").toString(): never throws; what is not a blob
\* decodes to bytes that are no JSON text.
base64urlDecode(s) ==
    IF Len(s) = 1 /\ "b64" \in DOMAIN s[1] THEN s[1].b64 ELSE [raw |-> s]

\* crypto.createHmac("sha256", secret).update(msg).digest("base64url"):
\* equal digests only for equal (secret, message).
hmacDigest(secret, msg) == << [b64 |-> [hmac |-> secret, over |-> msg]] >>

accessSecret == JWT_SECRET

\* One secret for both kinds.
refreshSecretUnsuffixed == JWT_SECRET

refreshSecret == JWT_SECRET \o "_refresh"

sign(payload, secret) ==
    LET header == base64url(JSONstringifyHeader)
        body == base64url(JSONstringifyPayload(payload))
        signature == hmacDigest(secret, header \o <<Dot>> \o body)
    IN header \o <<Dot>> \o body \o <<Dot>> \o signature

\* t1, t2: the two Date.now() readings (iat, then exp); jti: the UUID drawn.
accessPayload(userId, email, role, t1, t2, jti) ==
    [sub |-> userId, email |-> email, role |-> role,
     iat |-> t1 \div 1000, exp |-> (t2 \div 1000) + JWT_EXPIRY, jti |-> jti]

refreshPayload(userId, email, role, t1, t2, jti) ==
    [sub |-> userId, email |-> email, role |-> role,
     iat |-> t1 \div 1000, exp |-> (t2 \div 1000) + REFRESH_EXPIRY, jti |-> jti]

generateAccessToken(userId, email, role, t1, t2, jti) ==
    sign(accessPayload(userId, email, role, t1, t2, jti), accessSecret)

generateRefreshToken(userId, email, role, t1, t2, jti) ==
    sign(refreshPayload(userId, email, role, t1, t2, jti), refreshSecret)

\* verifyToken without the expiry test.
verifyTokenIgnoringExp(token, isRefresh, t) ==
    LET parts == split(token) IN
    IF Len(parts) # 3 THEN Null
    ELSE LET secret == IF isRefresh THEN refreshSecret ELSE accessSecret
             expectedSig == hmacDigest(secret, parts[1] \o <<Dot>> \o parts[2])
         IN IF expectedSig # parts[3] THEN Null
            ELSE LET text == base64urlDecode(parts[2]) IN
                 IF ~IsJSON(text) THEN Null ELSE JSONparse(text)

\* How the try block of verifyToken ends: the statements it ran, in order,
\* and either the value it returned or the fact that one of them threw.
Ended(steps, value) == [steps |-> steps, thrown |-> FALSE, value |-> value]
Threw(steps) == [steps |-> steps, thrown |-> TRUE, value |-> Null]

\* A try block that trusts the payload without comparing the signature.
verifyTokenTryUnsigned(token, isRefresh, t) ==
    IF token = NoString THEN Threw(<<"split">>)
    ELSE LET parts == split(token) IN
    IF Len(parts) # 3 THEN Ended(<<"split">>, Null)
    ELSE LET text == base64urlDecode(parts[2]) IN
         IF ~IsJSON(text) THEN Threw(<<"split", "parse">>)
         ELSE LET payload == JSONparse(text) IN
              IF payload = Null THEN Threw(<<"split", "parse", "exp">>)
              ELSE IF payload.exp < t \div 1000
                   THEN Ended(<<"split", "parse", "exp">>, Null)
                   ELSE Ended(<<"split", "parse", "exp">>, payload)

\* The try block of verifyToken(token, isRefresh), t: Date.now() when it
\* runs.  token.split throws on a token that is no string, JSON.parse on
\* text that is no JSON, payload.exp on a null payload.
verifyTokenTry(token, isRefresh, t) ==
    IF token = NoString THEN Threw(<<"split">>)
    ELSE LET parts == split(token) IN
    IF Len(parts) # 3 THEN Ended(<<"split">>, Null)
    ELSE LET secret == IF isRefresh THEN refreshSecret ELSE accessSecret
             expectedSig == hmacDigest(secret, parts[1] \o <<Dot>> \o parts[2])
         IN IF expectedSig # parts[3] THEN Ended(<<"split", "hmac">>, Null)
            ELSE LET text == base64urlDecode(parts[2]) IN
                 IF ~IsJSON(text) THEN Threw(<<"split", "hmac", "parse">>)
                 ELSE LET payload == JSONparse(text) IN
                      IF payload = Null
                      THEN Threw(<<"split", "hmac", "parse", "exp">>)
                      ELSE IF payload.exp < t \div 1000
                           THEN Ended(<<"split", "hmac", "parse", "exp">>, Null)
                           ELSE Ended(<<"split", "hmac", "parse", "exp">>, payload)

\* What reaches the caller when an exception leaves verifyToken.
Propagated == [exception |-> TRUE]

\* verifyToken without its catch clause.
verifyTokenNoCatch(token, isRefresh, t) ==
    LET run == verifyTokenTry(token, isRefresh, t)
    IN IF run.thrown THEN Propagated ELSE run.value

\* verifyToken that already refuses at now = exp.
verifyTokenRefusingAtExp(token, isRefresh, t) ==
    LET run == verifyTokenTry(token, isRefresh, t)
    IN IF run.thrown \/ run.value = Null THEN Null
       ELSE IF run.value.exp <= t \div 1000 THEN Null ELSE run.value

\* verifyToken(token, isRefresh): try { ... } catch { return null }.
verifyToken(token, isRefresh, t) ==
    LET run == verifyTokenTry(token, isRefresh, t)
    IN IF run.thrown THEN Null ELSE run.value

decodeToken(token) ==
    LET parts == split(token) IN
    IF Len(parts) # 3 THEN Null
    ELSE LET text == base64urlDecode(parts[2]) IN
         IF ~IsJSON(text) THEN Null ELSE JSONparse(text)

\* jti: the first of the two UUIDs drawn (access, then refresh).
createTokenPair(userId, email, role, t, jti) ==
    [accessToken |-> generateAccessToken(userId, email, role, t, t, jti),
     refreshToken |-> generateRefreshToken(userId, email, role, t, t, jti + 1),
     expiresIn |-> JWT_EXPIRY,
     tokenType |-> "Bearer"]

-----------------------------------------------------------------------------
(* api/middleware/auth-middleware.ts *)

BearerPrefix == <<Ch("B"), Ch("e"), Ch("a"), Ch("r"), Ch("e"), Ch("r"), Ch(" ")>>

startsWith(s, prefix) ==
    Len(s) >= Len(prefix) /\ SubSeq(s, 1, Len(prefix)) = prefix

slice(s, n) == SubSeq(s, n + 1, Len(s))

\* res.status(code).json({success: false, error, statusCode: code})
Rejected(code, error) ==
    [status |-> code,
     body |-> [success |-> FALSE, error |-> error, statusCode |-> code]]

\* extractToken without the test of the scheme.
extractTokenAnyScheme(r) ==
    LET header == r.headers.authorization IN
    IF header = NoString THEN NoString ELSE slice(header, 7)

extractToken(r) ==
    LET header == r.headers.authorization IN
    IF header = NoString \/ ~startsWith(header, BearerPrefix) THEN NoString
    ELSE slice(header, 7)

\* !x for a string-or-null x: null and the empty string are falsy.
Falsy(x) == x = NoString \/ x = <<>>

\* authenticateRequest verifying the bearer value as a refresh token.
authenticateRequestAsRefresh(r, t) ==
    LET token == extractToken(r) IN
    IF Falsy(token)
    THEN [req |-> r, res |-> Rejected(401, "Authentication required"), next |-> 0]
    ELSE LET payload == verifyToken(token, TRUE, t) IN
         IF payload = Null
         THEN [req |-> r, res |-> Rejected(401, "Invalid or expired token"), next |-> 0]
         ELSE [req |-> [r EXCEPT !.user = payload], res |-> Null, next |-> 1]

\* authenticateRequest that also looks for a live session of the token's
\* user before it lets the request through.
authenticateRequestChecksSession(r, t) ==
    LET token == extractToken(r) IN
    IF Falsy(token)
    THEN [req |-> r, res |-> Rejected(401, "Authentication required"), next |-> 0]
    ELSE LET payload == verifyToken(token, FALSE, t) IN
         IF payload = Null
            \/ ~\E row \in sessions : row.userId = payload.sub /\ row.expiresAt > t
         THEN [req |-> r, res |-> Rejected(401, "Invalid or expired token"), next |-> 0]
         ELSE [req |-> [r EXCEPT !.user = payload], res |-> Null, next |-> 1]

\* Each handler gives the request as it leaves it, the response it sent
\* (Null: none) and the number of times it called next().
authenticateRequest(r, t) ==
    LET token == extractToken(r) IN
    IF Falsy(token)
    THEN [req |-> r, res |-> Rejected(401, "Authentication required"), next |-> 0]
    ELSE LET payload == verifyToken(token, FALSE, t) IN
         IF payload = Null
         THEN [req |-> r, res |-> Rejected(401, "Invalid or expired token"), next |-> 0]
         ELSE [req |-> [r EXCEPT !.user = payload], res |-> Null, next |-> 1]

\* requireRole that lets an admin through whatever the roles are.
requireRoleAdminPasses(roles, r) ==
    IF r.user = Null
    THEN [req |-> r, res |-> Rejected(401, "Authentication required"), next |-> 0]
    ELSE IF r.user.role \notin roles \cup {"admin"}
         THEN [req |-> r, res |-> Rejected(403, "Forbidden"), next |-> 0]
         ELSE [req |-> r, res |-> Null, next |-> 1]

requireRole(roles, r) ==
    IF r.user = Null
    THEN [req |-> r, res |-> Rejected(401, "Authentication required"), next |-> 0]
    ELSE IF r.user.role \notin roles
         THEN [req |-> r, res |-> Rejected(403, "Forbidden"), next |-> 0]
         ELSE [req |-> r, res |-> Null, next |-> 1]

\* optionalAuth that turns away a bearer value that does not verify.
optionalAuthRejecting(r, t) ==
    LET token == extractToken(r)
        payload == verifyToken(token, FALSE, t)
    IN IF Falsy(token) THEN [req |-> r, res |-> Null, next |-> 1]
       ELSE IF payload # Null
            THEN [req |-> [r EXCEPT !.user = payload], res |-> Null, next |-> 1]
            ELSE [req |-> r, res |-> Rejected(401, "Invalid or expired token"),
                  next |-> 0]

optionalAuth(r, t) ==
    LET token == extractToken(r)
        payload == verifyToken(token, FALSE, t)
    IN IF ~Falsy(token) /\ payload # Null
       THEN [req |-> [r EXCEPT !.user = payload], res |-> Null, next |-> 1]
       ELSE [req |-> r, res |-> Null, next |-> 1]

-----------------------------------------------------------------------------
(* Who tokens are minted for: every role, two subjects, two addresses. *)

Principals ==
    { [sub |-> "u1", email |-> "a@b.com", role |-> "admin"],
      [sub |-> "u2", email |-> "c@d.com", role |-> "moderator"],
      [sub |-> "u1", email |-> "c@d.com", role |-> "user"],
      [sub |-> "u2", email |-> "a@b.com", role |-> "guest"] }

\* Time between the two Date.now() readings of one generate*Token call, ms:
\* none, or 1 ms where that crosses into the next second (a lag within one
\* second gives the payload of no lag).
ReadLags == {0} \cup (IF now % 1000 = 999 THEN {1} ELSE {})

\* How far one clock advance goes, ms: one second, one access lifetime, one
\* refresh lifetime.
ClockSteps == {1000, JWT_EXPIRY * 1000, REFRESH_EXPIRY * 1000}

\* What a caller without the secrets can present instead of token tk:
\* tk's payload rewritten (admin, later exp) under tk's signature, the same
\* payload signed with a guessed secret, tk cut to two segments, tk with a
\* fourth segment, a string without dots.
rewritten(tk) ==
    LET parts == split(tk)
        p == decodeToken(tk)
        q == [sub |-> p.sub, email |-> p.email, role |-> "admin",
              iat |-> p.iat, exp |-> p.exp + REFRESH_EXPIRY, jti |-> p.jti]
    IN parts[1] \o <<Dot>> \o base64url(JSONstringifyPayload(q)) \o <<Dot>> \o parts[3]

Forgeries(tk) ==
    LET parts == split(tk) IN
    { rewritten(tk),
      sign(decodeToken(tk), "guessed-secret"),
      parts[1] \o <<Dot>> \o parts[2],
      tk \o <<Dot>> \o parts[3],
      <<Ch("x")>> }

\* A token-shaped string sealed with a real secret around a body that no
\* generate*Token call produces.
sealed(body, secret) ==
    LET header == base64url(JSONstringifyHeader)
    IN header \o <<Dot>> \o body \o <<Dot>>
          \o hmacDigest(secret, header \o <<Dot>> \o body)

\* Inputs on which a statement of verifyToken's try block throws or the
\* segment count is wrong: no string at all (a missing body field), the
\* empty string, and, sealed with the secret of either kind, a body that is
\* no JSON and the JSON text null.
Malformed ==
    {NoString, <<>>}
    \cup {sealed(<<Ch("x")>>, secret) : secret \in {accessSecret, refreshSecret}}
    \cup {sealed(base64url(JSONnull), secret) :
              secret \in {accessSecret, refreshSecret}}

-----------------------------------------------------------------------------
(* Clock and token actions *)

Tick(d) ==
    /\ ticks < MaxTicks
    /\ now' = now + d
    /\ ticks' = ticks + 1

GenerateAccessToken ==
    \E who \in Principals, lag \in ReadLags :
        /\ uuids < MaxMints
        /\ uuids' = uuids + 1
        /\ now' = now + lag
        /\ cur' = [token |-> generateAccessToken(who.sub, who.email, who.role,
                                                  now, now + lag, uuids + 1),
                   payload |-> accessPayload(who.sub, who.email, who.role,
                                             now, now + lag, uuids + 1),
                   isRefresh |-> FALSE,
                   at |-> now + lag]
        /\ vr' = Null
        /\ req' = Null /\ res' = Null /\ pipe' = Null
        /\ UNCHANGED <<ticks, rateVars, sessionVars,
                       permVars, auditVars, loginVars, dbVars>>

GenerateRefreshToken ==
    \E who \in Principals, lag \in ReadLags :
        /\ uuids < MaxMints
        /\ uuids' = uuids + 1
        /\ now' = now + lag
        /\ cur' = [token |-> generateRefreshToken(who.sub, who.email, who.role,
                                                   now, now + lag, uuids + 1),
                   payload |-> refreshPayload(who.sub, who.email, who.role,
                                              now, now + lag, uuids + 1),
                   isRefresh |-> TRUE,
                   at |-> now + lag]
        /\ vr' = Null
        /\ req' = Null /\ res' = Null /\ pipe' = Null
        /\ UNCHANGED <<ticks, rateVars, sessionVars,
                       permVars, auditVars, loginVars, dbVars>>

ClockAdvance ==
    \E d \in ClockSteps :
        /\ Tick(d)
        /\ vr' = Null
        /\ req' = Null /\ res' = Null /\ pipe' = Null
        /\ UNCHANGED <<uuids, cur, rateVars, sessionVars,
                       permVars, auditVars, loginVars, dbVars>>

\* verifyToken(token, isRefresh) on the minted token, on a forgery of it or
\* on a malformed input; steps and caught tell what the try block ran and
\* whether it threw.
VerifyToken ==
    /\ cur # Null
    /\ \E tk \in {cur.token} \cup Forgeries(cur.token) \cup Malformed,
          isRefresh \in BOOLEAN :
        /\ vr' = [token |-> tk, isRefresh |-> isRefresh, at |-> now,
                  result |-> verifyToken(tk, isRefresh, now),
                  steps |-> verifyTokenTry(tk, isRefresh, now).steps,
                  caught |-> verifyTokenTry(tk, isRefresh, now).thrown]
        /\ UNCHANGED <<now, ticks, uuids, cur, gateVars, rateVars, sessionVars,
                       permVars, auditVars, loginVars, dbVars>>

-----------------------------------------------------------------------------
(* Requests through the middleware chains of the routes *)

\* Authorization header values: a bearer value after the scheme, the scheme
\* alone, the scheme in lower case, the scheme without its space, another
\* scheme.
Garbage == <<Ch("x")>>

BearerValues == IF cur = Null THEN {Garbage}
                ELSE {cur.token, rewritten(cur.token), Garbage}

Headers ==
    {BearerPrefix \o v : v \in BearerValues}
    \cup {<<Ch("b")>> \o Tail(BearerPrefix) \o v : v \in BearerValues \ {Garbage}}
    \cup {SubSeq(BearerPrefix, 1, 6) \o v : v \in BearerValues \ {Garbage}}
    \cup {BearerPrefix, <<Ch("B"), Ch("a"), Ch("s"), Ch("i"), Ch("c"), Ch(" "), Ch("x")>>}

\* The chains the routes register (routes/user-routes.ts, routes/auth-routes.ts:
\* authenticateRequest alone, or followed by requireRole) and optionalAuth.
Chains == { <<"authenticateRequest">>,
            <<"authenticateRequest", "requireRole">>,
            <<"optionalAuth">> }

\* The request being worked on has got its response or reached its handler.
Finished == pipe # Null /\ (res # Null \/ pipe.handled)

\* A request arrives: no user attached, nothing sent.  The handlers are
\* synchronous, so requests pass through the chain one at a time.
Request ==
    \E chain \in Chains, present \in BOOLEAN :
      \E header \in IF present THEN Headers ELSE {NoString} :
        /\ pipe = Null \/ Finished
        /\ req' = [headers |-> [authorization |-> header], user |-> Null]
        /\ res' = Null
        /\ pipe' = [chain |-> chain, ran |-> <<>>, handled |-> FALSE]
        /\ UNCHANGED <<now, ticks, uuids, tokenVars, rateVars, sessionVars,
                       permVars, auditVars, loginVars, dbVars>>

\* The next handler of the chain runs when every handler before it called
\* next() and no response was sent.
Due(mw) ==
    /\ pipe # Null
    /\ res = Null
    /\ Len(pipe.ran) < Len(pipe.chain)
    /\ pipe.chain[Len(pipe.ran) + 1] = mw
    /\ \A i \in DOMAIN pipe.ran : pipe.ran[i].next > 0

Ran(mw, roles, out) ==
    /\ req' = out.req
    /\ res' = out.res
    /\ pipe' = [pipe EXCEPT !.ran = Append(@, [mw |-> mw, roles |-> roles,
                                                next |-> out.next, at |-> now])]

AuthenticateRequest ==
    /\ Due("authenticateRequest")
    /\ Ran("authenticateRequest", {}, authenticateRequest(req, now))
    /\ UNCHANGED <<now, ticks, uuids, tokenVars, rateVars, sessionVars,
                   permVars, auditVars, loginVars, dbVars>>

\* The route's required roles are any set of roles.
RequireRole ==
    /\ Due("requireRole")
    /\ \E roles \in SUBSET UserRole :
           Ran("requireRole", roles, requireRole(roles, req))
    /\ UNCHANGED <<now, ticks, uuids, tokenVars, rateVars, sessionVars,
                   permVars, auditVars, loginVars, dbVars>>

OptionalAuth ==
    /\ Due("optionalAuth")
    /\ Ran("optionalAuth", {}, optionalAuth(req, now))
    /\ UNCHANGED <<now, ticks, uuids, tokenVars, rateVars, sessionVars,
                   permVars, auditVars, loginVars, dbVars>>

\* The route's own handler: reached when every middleware called next().
RouteHandler ==
    /\ pipe # Null
    /\ res = Null
    /\ ~pipe.handled
    /\ Len(pipe.ran) = Len(pipe.chain)
    /\ \A i \in DOMAIN pipe.ran : pipe.ran[i].next > 0
    /\ pipe' = [pipe EXCEPT !.handled = TRUE]
    /\ UNCHANGED <<now, ticks, uuids, tokenVars, req, res, rateVars, sessionVars,
                   permVars, auditVars, loginVars, dbVars>>

-----------------------------------------------------------------------------
(* api/middleware/auth-middleware.ts: rateLimitAuth over the module's       *)
(* rateLimitStore.  The handler has no await: one check runs to its end     *)
(* before another begins.                                                   *)

TooManyAttempts == "Too many attempts. Try again later."

\* const key = req.ip ?? "unknown"
rateLimitKey(r) == IF r.ip = Null THEN "unknown" ELSE r.ip.addr

\* The check with the cap compared by > instead of >=.
rateLimitAuthOnePastCap(maxAttempts, windowMs, store, r, t) ==
    LET key == rateLimitKey(r)
        entry == store[key]
    IN IF entry # Null /\ entry.resetAt > t
       THEN IF entry.count > maxAttempts
            THEN [store |-> store, res |-> Rejected(429, TooManyAttempts), next |-> 0]
            ELSE [store |-> [store EXCEPT ![key].count = @ + 1],
                  res |-> Null, next |-> 1]
       ELSE [store |-> [store EXCEPT ![key] =
                           [count |-> 1, resetAt |-> t + windowMs]],
             res |-> Null, next |-> 1]

\* The check with the increment written from a stale read: the count stays.
rateLimitAuthLostIncrement(maxAttempts, windowMs, store, r, t) ==
    LET key == rateLimitKey(r)
        entry == store[key]
    IN IF entry # Null /\ entry.resetAt > t
       THEN IF entry.count >= maxAttempts
            THEN [store |-> store, res |-> Rejected(429, TooManyAttempts), next |-> 0]
            ELSE [store |-> store, res |-> Null, next |-> 1]
       ELSE [store |-> [store EXCEPT ![key] =
                           [count |-> 1, resetAt |-> t + windowMs]],
             res |-> Null, next |-> 1]

\* The check that takes a window to be open still at its reset time.
rateLimitAuthOpenAtReset(maxAttempts, windowMs, store, r, t) ==
    LET key == rateLimitKey(r)
        entry == store[key]
    IN IF entry # Null /\ entry.resetAt >= t
       THEN IF entry.count >= maxAttempts
            THEN [store |-> store, res |-> Rejected(429, TooManyAttempts), next |-> 0]
            ELSE [store |-> [store EXCEPT ![key].count = @ + 1],
                  res |-> Null, next |-> 1]
       ELSE [store |-> [store EXCEPT ![key] =
                           [count |-> 1, resetAt |-> t + windowMs]],
             res |-> Null, next |-> 1]

\* The check that counts the request before it tests the cap.
rateLimitAuthCountsBlocked(maxAttempts, windowMs, store, r, t) ==
    LET key == rateLimitKey(r)
        entry == store[key]
    IN IF entry # Null /\ entry.resetAt > t
       THEN IF entry.count >= maxAttempts
            THEN [store |-> [store EXCEPT ![key].count = @ + 1],
                  res |-> Rejected(429, TooManyAttempts), next |-> 0]
            ELSE [store |-> [store EXCEPT ![key].count = @ + 1],
                  res |-> Null, next |-> 1]
       ELSE [store |-> [store EXCEPT ![key] =
                           [count |-> 1, resetAt |-> t + windowMs]],
             res |-> Null, next |-> 1]

\* rateLimitAuth(maxAttempts, windowMs)(req, res, next) at Date.now() = t:
\* the store as the handler leaves it, the response it sent (Null: none) and
\* the number of times it called next().
rateLimitAuth(maxAttempts, windowMs, store, r, t) ==
    LET key == rateLimitKey(r)
        entry == store[key]
    IN IF entry # Null /\ entry.resetAt > t
       THEN IF entry.count >= maxAttempts
            THEN [store |-> store, res |-> Rejected(429, TooManyAttempts), next |-> 0]
            ELSE [store |-> [store EXCEPT ![key].count = @ + 1],
                  res |-> Null, next |-> 1]
       ELSE [store |-> [store EXCEPT ![key] =
                           [count |-> 1, resetAt |-> t + windowMs]],
             res |-> Null, next |-> 1]

\* The limiters the routes install: rateLimitAuth(5, 900000) on /auth/login,
\* rateLimitAuth(3, 3600000) on /auth/signup and on /auth/forgot-password.
Limiters ==
    {[maxAttempts |-> 5, windowMs |-> 900000],
     [maxAttempts |-> 3, windowMs |-> 3600000]}

\* req.ip of the requests: one address, or none.
Ips == {[addr |-> "203.0.113.7"], Null}

Keys == {rateLimitKey([ip |-> ip]) : ip \in Ips}

\* Whether the window recorded as w is open at time t.
Open(w, t) == w # Null /\ w.resetAt > t

\* One request passes through a route's limiter.  win[key] keeps, for the
\* window the key's entry opened: its end, the checks made in it, how many of
\* them called next(), and the caps of the limiters that made them.
RateLimitAuth ==
    \E lim \in Limiters, ip \in Ips :
        LET r == [ip |-> ip]
            key == rateLimitKey(r)
            open == Open(win[key], now)
            out == rateLimitAuth(lim.maxAttempts, lim.windowMs, rateLimitStore, r, now)
            w == IF open
                 THEN [win[key] EXCEPT !.checks = @ + 1,
                                       !.allowed = @ + out.next,
                                       !.caps = @ \cup {lim.maxAttempts}]
                 ELSE [resetAt |-> now + lim.windowMs, checks |-> 1,
                       allowed |-> out.next, caps |-> {lim.maxAttempts}]
        IN /\ open => win[key].checks < MaxChecks
           /\ rateLimitStore' = out.store
           /\ win' = [win EXCEPT ![key] = w]
           /\ chk' = [key |-> key, maxAttempts |-> lim.maxAttempts,
                      windowMs |-> lim.windowMs,
                      found |-> rateLimitStore[key],
                      opened |-> ~open, idx |-> w.checks,
                      prior |-> w.allowed - out.next,
                      res |-> out.res, next |-> out.next]
           /\ UNCHANGED <<now, ticks, uuids, tokenVars, gateVars, sessionVars,
                          permVars, auditVars, loginVars, dbVars>>

\* Time passes for the limiter: to the last millisecond of a login window, to
\* its end, to the end of a signup window.
RateClockSteps == {899999, 900000, 3600000}

RateClockAdvance ==
    \E d \in RateClockSteps :
        /\ ticks < MaxRateTicks
        /\ now' = now + d
        /\ ticks' = ticks + 1
        /\ chk' = Null
        /\ UNCHANGED <<uuids, tokenVars, gateVars, sessionVars, rateLimitStore, win,
                       permVars, auditVars, loginVars, dbVars>>

-----------------------------------------------------------------------------
(* auth/session.ts: SessionManager over the sessions table.  Each db.query  *)
(* is awaited: the statement runs in the database as one step, and other    *)
(* calls may run between two statements of one call.  The statements are    *)
(* modelled by what their SQL text says of the sessions table                *)
(* (DatabaseConnection.query in the source is a placeholder).               *)

\* An INSERT that stores the pair's access token in refresh_token.
createStoresAccessToken(userId, tokens, t, id) ==
    [id |-> id, userId |-> userId, refreshToken |-> tokens.accessToken,
     expiresAt |-> t + tokens.expiresIn * 1000, createdAt |-> t]

\* INSERT INTO sessions (id, user_id, refresh_token, ..., expires_at)
create(userId, tokens, t, id) ==
    [id |-> id, userId |-> userId, refreshToken |-> tokens.refreshToken,
     expiresAt |-> t + tokens.expiresIn * 1000, createdAt |-> t]

\* A lookup that forgets the expires_at test.
selectIgnoringExpiry(rows, refreshToken, t) ==
    {row \in rows : row.refreshToken = refreshToken}

\* SELECT * FROM sessions WHERE refresh_token = $1 AND expires_at > NOW()
selectByRefreshToken(rows, refreshToken, t) ==
    {row \in rows : row.refreshToken = refreshToken /\ row.expiresAt > t}

\* A rotation that leaves the stored token in place.
updateKeepsOldToken(rows, newToken, oldToken) == rows

\* A rotation whose UPDATE has no WHERE clause.
updateEveryRow(rows, newToken, oldToken) ==
    {[row EXCEPT !.refreshToken = newToken] : row \in rows}

\* A rotation that also renews the session: expires_at moves on by the
\* refresh token's lifetime.
updateSlidesExpiry(rows, newToken, oldToken) ==
    {IF row.refreshToken = oldToken
     THEN [row EXCEPT !.refreshToken = newToken,
                      !.expiresAt = @ + REFRESH_EXPIRY * 1000]
     ELSE row : row \in rows}

\* UPDATE sessions SET refresh_token = $1 WHERE refresh_token = $2
updateRefreshToken(rows, newToken, oldToken) ==
    {IF row.refreshToken = oldToken THEN [row EXCEPT !.refreshToken = newToken]
     ELSE row : row \in rows}

\* A logout that empties the table.
destroyAllRows(rows, sessionId) == {}

\* A logout that deletes nothing.
destroyNothing(rows, sessionId) == rows

\* DELETE FROM sessions WHERE id = $1
destroy(rows, sessionId) == {row \in rows : row.id # sessionId}

\* validate that verifies the stored token as an access token.
validateAsAccessToken(rows, sessionId, t) ==
    LET result == {row \in rows : row.id = sessionId /\ row.expiresAt > t}
    IN IF Cardinality(result) = 0 THEN Null
       ELSE verifyToken((CHOOSE row \in result : TRUE).refreshToken, FALSE, t)

\* validate(sessionId) at time t: SELECT * FROM sessions WHERE id = $1 AND
\* expires_at > NOW(); null when rowCount is 0, else
\* verifyToken(result.rows[0].refreshToken, true).
validate(rows, sessionId, t) ==
    LET result == {row \in rows : row.id = sessionId /\ row.expiresAt > t}
    IN IF Cardinality(result) = 0 THEN Null
       ELSE verifyToken((CHOOSE row \in result : TRUE).refreshToken, TRUE, t)

\* Time passes for the sessions: one session lifetime (the pair's expiresIn),
\* or just over one refresh-token lifetime.
SessionClockSteps == {JWT_EXPIRY * 1000, REFRESH_EXPIRY * 1000 + 1000}

SessionClockAdvance ==
    \E d \in SessionClockSteps :
        /\ ret = Null /\ fault = Null
        /\ ticks < MaxSessionTicks
        /\ now' = now + d
        /\ ticks' = ticks + 1
        /\ ret' = Null
        /\ UNCHANGED <<uuids, tokenVars, gateVars, rateVars,
                       sessions, issued, calls, ncalls, rotated,
                       permVars, auditVars, loginVars, dbVars>>

\* The accounts that log in: a user and a guest.
Accounts == {who \in Principals : who.role \in {"user", "guest"}}

\* The refresh calls that can be in flight together.
Procs == {1, 2}

\* AuthController.login / signup, credentials accepted: createTokenPair, then
\* sessions.create; the pair goes to the caller.  Each account logs in once.
Login ==
    \E who \in Accounts :
        LET tokens == createTokenPair(who.sub, who.email, who.role, now, uuids + 1)
        IN /\ ret = Null /\ fault = Null /\ connected
           /\ \A i \in DOMAIN issued :
                  issued[i].by = "login" =>
                      decodeToken(issued[i].tokens.accessToken).sub # who.sub
           /\ sessions' = sessions \cup {create(who.sub, tokens, now, uuids + 3)}
           /\ issued' = Append(issued, [by |-> "login", tokens |-> tokens])
           /\ uuids' = uuids + 3
           /\ ret' = Null
           /\ stored' = stored \cup {[id |-> uuids + 3,
                                       token |-> tokens.refreshToken]}
           /\ UNCHANGED <<now, ticks, tokenVars, gateVars, rateVars,
                          calls, ncalls, rotated,
                          permVars, destroyed, loginVars, dbVars>>

\* AuthController.logout -> SessionManager.destroy(sessionId), for the id of
\* a stored session or for an id that is not stored (0 is never drawn).
Destroy ==
    \E sessionId \in {row.id : row \in sessions} \cup {0} :
        /\ ret = Null /\ fault = Null /\ connected
        /\ sessions' = destroy(sessions, sessionId)
        /\ destroyed' = destroyed \cup
                            {row.id : row \in {r \in sessions : r.id = sessionId}}
        /\ ret' = Null
        /\ UNCHANGED <<now, ticks, uuids, tokenVars, gateVars, rateVars,
                       issued, calls, ncalls, rotated,
                       permVars, stored, loginVars, dbVars>>

\* SessionManager.validate(sessionId), for the id of a stored session, of a
\* destroyed one, or for an id that was never stored.
Validate ==
    \E sessionId \in {row.id : row \in sessions} \cup destroyed \cup {0} :
        /\ ret = Null /\ fault = Null /\ connected
        /\ vr' = [op |-> "validate", sessionId |-> sessionId, at |-> now,
                  result |-> validate(sessions, sessionId, now)]
        /\ UNCHANGED <<now, ticks, uuids, cur, gateVars, rateVars,
                       sessionVars, permVars, auditVars, loginVars, dbVars>>

\* A request arrives at a route behind authenticateRequest and requireRole
\* with the access token of a pair that login or refresh handed out.
IssuedTokenRequest ==
    \E i \in DOMAIN issued :
        /\ ret = Null /\ fault = Null
        /\ pipe = Null \/ Finished
        /\ req' = [headers |-> [authorization |->
                       BearerPrefix \o issued[i].tokens.accessToken],
                   user |-> Null]
        /\ res' = Null
        /\ pipe' = [chain |-> <<"authenticateRequest", "requireRole">>,
                    ran |-> <<>>, handled |-> FALSE]
        /\ UNCHANGED <<now, ticks, uuids, tokenVars, rateVars, sessionVars,
                       permVars, auditVars, loginVars, dbVars>>

\* What a caller can present to refresh: the refresh tokens of the pairs
\* handed out, and the access token of the first pair.
Presentable ==
    {issued[i].tokens.refreshToken : i \in DOMAIN issued}
    \cup {issued[i].tokens.accessToken : i \in DOMAIN issued \cap {1}}

\* A refresh call returns result: what the caller sees, whether the token had
\* been rotated when the call began (late) and when it returned (spent).
Returned(token, result, late) ==
    [token |-> token, result |-> result, late |-> late,
     spent |-> token \in rotated, at |-> now]

\* A refresh that sends its SELECT whatever verifyToken answered.
RefreshCallLookupFirst ==
    \E refreshToken \in Presentable :
        \E p \in Procs :
            /\ ret = Null /\ fault = Null
            /\ calls[p] = Null
            /\ \A q \in Procs : q < p => calls[q] # Null
            /\ ncalls < MaxCalls
            /\ ncalls' = ncalls + 1
            /\ calls' = [calls EXCEPT ![p] =
                  [token |-> refreshToken,
                   payload |-> verifyToken(refreshToken, TRUE, now),
                   pc |-> "select",
                   newTokens |-> Null,
                   late |-> refreshToken \in rotated]]
            /\ ret' = Null
            /\ UNCHANGED <<now, ticks, uuids, tokenVars, gateVars, rateVars,
                           sessions, issued, rotated,
                           permVars, auditVars, loginVars, dbVars>>

\* refresh(refreshToken), up to the first await: verifyToken(refreshToken,
\* true); on null the call returns null, else the SELECT is sent.
RefreshCall ==
    \E refreshToken \in Presentable :
        LET payload == verifyToken(refreshToken, TRUE, now) IN
        /\ ret = Null /\ fault = Null
        /\ IF payload = Null
           THEN /\ ret' = Returned(refreshToken, Null, refreshToken \in rotated)
                /\ UNCHANGED <<now, ticks, uuids, tokenVars, gateVars, rateVars,
                               sessions, issued, calls, ncalls, rotated,
                               permVars, auditVars, loginVars, dbVars>>
           ELSE \E p \in Procs :
                /\ calls[p] = Null
                /\ \A q \in Procs : q < p => calls[q] # Null
                /\ ncalls < MaxCalls
                /\ ncalls' = ncalls + 1
                /\ calls' = [calls EXCEPT ![p] =
                      [token |-> refreshToken,
                       payload |-> payload,
                       pc |-> "select",
                       newTokens |-> Null,
                       late |-> refreshToken \in rotated]]
                /\ ret' = Null
                /\ UNCHANGED <<now, ticks, uuids, tokenVars, gateVars, rateVars,
                               sessions, issued, rotated,
                               permVars, auditVars, loginVars, dbVars>>

\* The SELECT runs and the call goes on: with no row it returns null, else
\* createTokenPair and the UPDATE is sent.
RefreshSelect ==
    \E p \in Procs :
        /\ ret = Null /\ fault = Null /\ connected
        /\ calls[p] # Null
        /\ calls[p].pc = "select"
        /\ LET c == calls[p]
               result == selectByRefreshToken(sessions, c.token, now)
               newTokens == createTokenPair(c.payload.sub, c.payload.email,
                                            c.payload.role, now, uuids + 1)
           IN IF Cardinality(result) = 0
              THEN /\ calls' = [calls EXCEPT ![p] = Null]
                   /\ ret' = Returned(c.token, Null, c.late)
                   /\ uuids' = uuids
              ELSE /\ calls' = [calls EXCEPT ![p].pc = "update",
                                             ![p].newTokens = newTokens]
                   /\ ret' = Null
                   /\ uuids' = uuids + 2
        /\ UNCHANGED <<now, ticks, tokenVars, gateVars, rateVars,
                       sessions, issued, ncalls, rotated,
                       permVars, auditVars, loginVars, dbVars>>

\* The UPDATE runs and the call returns newTokens.
RefreshUpdate ==
    \E p \in Procs :
        /\ ret = Null /\ fault = Null /\ connected
        /\ calls[p] # Null
        /\ calls[p].pc = "update"
        /\ LET c == calls[p] IN
           /\ sessions' = updateRefreshToken(sessions, c.newTokens.refreshToken, c.token)
           /\ calls' = [calls EXCEPT ![p] = Null]
           /\ ret' = Returned(c.token, c.newTokens, c.late)
           /\ issued' = Append(issued, [by |-> "refresh", tokens |-> c.newTokens])
           /\ rotated' = rotated \cup {c.token}
           /\ stored' = stored \cup
                  {[id |-> row.id, token |-> c.newTokens.refreshToken] :
                      row \in {r \in sessions : r.refreshToken = c.token}}
        /\ UNCHANGED <<now, ticks, uuids, tokenVars, gateVars, rateVars, ncalls,
                       permVars, destroyed, loginVars, dbVars>>

\* AuthController.refreshToken: the result of sessions.refresh is handed to the
\* caller in the same turn as the return that produced it.
refreshToken ==
    /\ ret # Null
    /\ ret' = Null
    /\ UNCHANGED <<now, ticks, uuids, tokenVars, gateVars, rateVars,
                   sessions, issued, calls, ncalls, rotated,
                   permVars, auditVars, loginVars, dbVars>>

\* The statement of a SessionManager call that DatabaseConnection.query
\* refused, and what the call was about (a token, a session id, a user).
Fault(op, stmt, about) == [op |-> op, stmt |-> stmt, about |-> about]

\* DatabaseConnection.disconnect() and connect().
Disconnect ==
    /\ ret = Null /\ fault = Null
    /\ connected
    /\ connected' = FALSE
    /\ UNCHANGED <<now, ticks, uuids, tokenVars, gateVars, rateVars,
                   sessionVars, permVars, auditVars, loginVars, fault>>

Connect ==
    /\ ret = Null /\ fault = Null
    /\ ~connected
    /\ connected' = TRUE
    /\ UNCHANGED <<now, ticks, uuids, tokenVars, gateVars, rateVars,
                   sessionVars, permVars, auditVars, loginVars, fault>>

\* login / signup with the database not connected: createTokenPair, then
\* the INSERT of sessions.create throws; the await in the controller throws
\* and the pair is handed to nobody (the UUIDs drawn are held by nothing).
CreateFails ==
    \E who \in Accounts :
        /\ ret = Null /\ fault = Null
        /\ ~connected
        /\ fault' = Fault("create", "insert", who.sub)
        /\ UNCHANGED <<now, ticks, uuids, tokenVars, gateVars, rateVars,
                       sessionVars, permVars, auditVars, loginVars, connected>>

\* logout with the database not connected: the DELETE throws.
DestroyFails ==
    \E sessionId \in {row.id : row \in sessions} \cup {0} :
        /\ ret = Null /\ fault = Null
        /\ ~connected
        /\ fault' = Fault("destroy", "delete", sessionId)
        /\ UNCHANGED <<now, ticks, uuids, tokenVars, gateVars, rateVars,
                       sessionVars, permVars, auditVars, loginVars, connected>>

\* A refresh whose failed SELECT is sent again.
RefreshSelectRetries ==
    \E p \in Procs :
        /\ ret = Null /\ fault = Null
        /\ ~connected
        /\ calls[p] # Null
        /\ calls[p].pc = "select"
        /\ fault' = Fault("refresh", "select", calls[p].token)
        /\ UNCHANGED <<now, ticks, uuids, tokenVars, gateVars, rateVars,
                       sessionVars, permVars, auditVars, loginVars, connected>>

\* The SELECT of a refresh throws: the call ends with the error.
RefreshSelectFails ==
    \E p \in Procs :
        /\ ret = Null /\ fault = Null
        /\ ~connected
        /\ calls[p] # Null
        /\ calls[p].pc = "select"
        /\ calls' = [calls EXCEPT ![p] = Null]
        /\ fault' = Fault("refresh", "select", calls[p].token)
        /\ UNCHANGED <<now, ticks, uuids, tokenVars, gateVars, rateVars,
                       sessions, issued, ncalls, ret, rotated,
                       permVars, auditVars, loginVars, connected>>

\* The UPDATE of a refresh throws: the call ends with the error and its
\* newTokens are handed to nobody.
RefreshUpdateFails ==
    \E p \in Procs :
        /\ ret = Null /\ fault = Null
        /\ ~connected
        /\ calls[p] # Null
        /\ calls[p].pc = "update"
        /\ calls' = [calls EXCEPT ![p] = Null]
        /\ fault' = Fault("refresh", "update", calls[p].token)
        /\ UNCHANGED <<now, ticks, uuids, tokenVars, gateVars, rateVars,
                       sessions, issued, ncalls, ret, rotated,
                       permVars, auditVars, loginVars, connected>>

\* The error of the failed statement leaves the SessionManager call and the
\* controller method that awaited it.
StorageErrorPropagates ==
    /\ fault # Null
    /\ fault' = Null
    /\ UNCHANGED <<now, ticks, uuids, tokenVars, gateVars, rateVars,
                   sessionVars, permVars, auditVars, loginVars, connected>>

-----------------------------------------------------------------------------
(* auth/permissions.ts *)

Permission ==
    {"read:own_profile", "update:own_profile", "delete:own_account",
     "read:any_profile", "update:any_profile", "delete:any_account",
     "list:users", "manage:roles", "view:audit_log"}

\* Object.values(Permission): the values in the order of the enum.
PermissionValues ==
    <<"read:own_profile", "update:own_profile", "delete:own_account",
      "read:any_profile", "update:any_profile", "delete:any_account",
      "list:users", "manage:roles", "view:audit_log">>

\* A table in which a moderator may read any profile but not list users.
RolePermissionsModeratorCannotList ==
    [role \in UserRole |->
        CASE role = "guest" -> <<"read:own_profile">>
          [] role = "user" ->
                <<"read:own_profile", "update:own_profile", "delete:own_account">>
          [] role = "moderator" ->
                <<"read:own_profile", "update:own_profile", "delete:own_account",
                  "read:any_profile", "view:audit_log">>
          [] role = "admin" -> PermissionValues]

\* The Map from role to its Permission[].
RolePermissions ==
    [role \in UserRole |->
        CASE role = "guest" -> <<"read:own_profile">>
          [] role = "user" ->
                <<"read:own_profile", "update:own_profile", "delete:own_account">>
          [] role = "moderator" ->
                <<"read:own_profile", "update:own_profile", "delete:own_account",
                  "read:any_profile", "list:users", "view:audit_log">>
          [] role = "admin" -> PermissionValues]

\* Array.prototype.includes
includes(array, x) == \E i \in DOMAIN array : array[i] = x

\* hasPermission that takes a role without an entry to hold every permission.
hasPermissionOpenByDefault(role, permission) ==
    IF role \notin DOMAIN RolePermissions THEN TRUE
    ELSE includes(RolePermissions[role], permission)

hasPermission(role, permission) ==
    IF role \notin DOMAIN RolePermissions THEN FALSE
    ELSE includes(RolePermissions[role], permission)

\* requirePermission that returns whatever the role holds.
requirePermissionReturns(role, permission) == Null

\* requirePermission: Null when it returns, the Error's message when it throws.
requirePermission(role, permission) ==
    IF ~hasPermission(role, permission)
    THEN [error |-> "Insufficient permissions", permission |-> permission,
          role |-> role]
    ELSE Null

isAdmin(role) == role = "admin"

\* Role values the callers can pass: the enum's, and strings that are no
\* member of it (the role travels as a string inside the token payload).
OtherRoles == {"superuser", "service"}
Roles == UserRole \cup OtherRoles

HasPermission ==
    \E role \in Roles, permission \in Permission :
        /\ perm' = [op |-> "hasPermission", role |-> role,
                    permission |-> permission,
                    result |-> hasPermission(role, permission), thrown |-> Null]
        /\ UNCHANGED <<now, ticks, uuids, tokenVars, gateVars, rateVars,
                       sessionVars, auditVars, loginVars, dbVars>>

RequirePermission ==
    \E role \in Roles, permission \in Permission :
        /\ perm' = [op |-> "requirePermission", role |-> role,
                    permission |-> permission,
                    result |-> requirePermission(role, permission) = Null,
                    thrown |-> requirePermission(role, permission)]
        /\ UNCHANGED <<now, ticks, uuids, tokenVars, gateVars, rateVars,
                       sessionVars, auditVars, loginVars, dbVars>>

IsAdmin ==
    \E role \in Roles :
        /\ perm' = [op |-> "isAdmin", role |-> role, permission |-> "",
                    result |-> isAdmin(role), thrown |-> Null]
        /\ UNCHANGED <<now, ticks, uuids, tokenVars, gateVars, rateVars,
                       sessionVars, auditVars, loginVars, dbVars>>

-----------------------------------------------------------------------------
(* api/controllers/user-controller.ts behind api/routes/user-routes.ts *)

\* An ApiResponse that reports a failure / a success.
Failure(code, error) == [success |-> FALSE, error |-> error, statusCode |-> code]
Success(code) == [success |-> TRUE, error |-> "", statusCode |-> code]

\* A controller call ends by returning an ApiResponse or by throwing.
Returns(result) == [result |-> result, thrown |-> Null]
Throws(error) == [result |-> Null, thrown |-> error]

\* The permission each operation asks requirePermission for ("": none).
RequiredPermission ==
    [op \in {"getProfile", "updateProfile", "changePassword", "deleteAccount",
             "listUsers", "getUserById"} |->
        CASE op = "updateProfile" -> "update:own_profile"
          [] op = "changePassword" -> "update:own_profile"
          [] op = "deleteAccount" -> "delete:own_account"
          [] op = "listUsers" -> "list:users"
          [] OTHER -> ""]

\* How an operation can end once it is past its permission test: one ending
\* for each return statement (which one depends on the users table and on
\* the request body).
Completions(op) ==
    CASE op = "getProfile" ->
            {Returns(Failure(404, "User not found")), Returns(Success(200))}
      [] op = "updateProfile" ->
            {Returns(Failure(400, "validation")),
             Returns(Failure(404, "User not found")), Returns(Success(200))}
      [] op = "changePassword" ->
            {Returns(Failure(404, "User not found")),
             Returns(Failure(401, "Current password is incorrect")),
             Returns(Failure(400, "validation")), Returns(Success(200))}
      [] op = "deleteAccount" ->
            {Returns(Failure(404, "User not found")), Returns(Success(200))}
      [] op = "listUsers" -> {Returns(Success(200))}
      [] op = "getUserById" ->
            {Returns(Failure(404, "User not found")), Returns(Success(200))}

\* The ways a UserController operation called with the role can end.
UserController(op, role) ==
    IF op = "getUserById"
    THEN IF ~hasPermission(role, "read:any_profile")
         THEN {Returns(Failure(403, "Forbidden"))}
         ELSE Completions(op)
    ELSE IF RequiredPermission[op] # ""
              /\ requirePermission(role, RequiredPermission[op]) # Null
         THEN {Throws(requirePermission(role, RequiredPermission[op]))}
         ELSE Completions(op)

\* registerUserRoutes: each route's middleware chain, the roles it gives
\* requireRole, and the operation its handler awaits.
UserRoutes ==
    {[route |-> "GET /users/me", chain |-> <<"authenticateRequest">>,
      roles |-> {}, op |-> "getProfile"],
     [route |-> "PUT /users/me", chain |-> <<"authenticateRequest">>,
      roles |-> {}, op |-> "updateProfile"],
     [route |-> "PUT /users/me/password", chain |-> <<"authenticateRequest">>,
      roles |-> {}, op |-> "changePassword"],
     [route |-> "DELETE /users/me", chain |-> <<"authenticateRequest">>,
      roles |-> {}, op |-> "deleteAccount"],
     [route |-> "GET /users",
      chain |-> <<"authenticateRequest", "requireRole">>,
      roles |-> {"admin", "moderator"}, op |-> "listUsers"],
     [route |-> "GET /users/:id",
      chain |-> <<"authenticateRequest", "requireRole">>,
      roles |-> {"admin", "moderator"}, op |-> "getUserById"]}

\* What the caller gets when the handler's promise is rejected: the handlers
\* have no try/catch and no error handler is registered, so it is the
\* router's doing: no response, or the router's own internal-error response.
RouterError == [status |-> 500, body |-> Null]
Uncaught == {Null, RouterError}

\* The handler of a user route: await the controller operation, then
\* res.status(result.statusCode).json(result).
UserRouteHandler ==
    \E r \in UserRoutes :
        /\ pipe # Null
        /\ res = Null
        /\ ~pipe.handled
        /\ pipe.chain = r.chain
        /\ Len(pipe.ran) = Len(pipe.chain)
        /\ \A i \in DOMAIN pipe.ran : pipe.ran[i].next > 0
        /\ Len(pipe.chain) = 2 => pipe.ran[2].roles = r.roles
        /\ \E end \in UserController(r.op, req.user.role) :
              /\ pipe' = [chain |-> pipe.chain, ran |-> pipe.ran,
                          handled |-> TRUE, route |-> r.route, op |-> r.op,
                          thrown |-> end.thrown]
              /\ IF end.thrown = Null
                 THEN res' = [status |-> end.result.statusCode,
                              body |-> end.result]
                 ELSE res' \in Uncaught
        /\ UNCHANGED <<now, ticks, uuids, tokenVars, req, rateVars, sessionVars,
                       permVars, auditVars, loginVars, dbVars>>

-----------------------------------------------------------------------------
\* The clock starts one millisecond before a new second, so that a read lag
\* of 1 ms can cross into it.
-----------------------------------------------------------------------------
(* utils/hash.ts, api/models/user-model.ts and AuthController.login         *)

MaxLogins == 3

\* The characters of a stored hash: salt text, the ":" separator, the hex
\* text of a derived key.
Colon == [sep |-> ":"]

KEY_LENGTH == 64

\* crypto.scrypt(password, salt, KEY_LENGTH, ...): KEY_LENGTH bytes, equal
\* to another key's only for equal (password, salt).  A buffer is written as
\* the derivation its bytes come from, its byte length (the leading bytes
\* kept) and the positions whose byte was altered.
scrypt(password, salt) ==
    [scrypt |-> password, salt |-> salt, length |-> KEY_LENGTH, changed |-> {}]

\* Buffer.byteLength
byteLength(buf) == buf.length

\* derivedKey.toString("hex") and Buffer.from(hash, "hex"): text that is no
\* hex decodes to no bytes.
toHex(key) == << [hex |-> key] >>
fromHex(text) ==
    IF Len(text) = 1 /\ "hex" \in DOMAIN text[1] THEN text[1].hex
    ELSE [length |-> 0]

\* A hash whose key is derived without the salt that is stored with it.
hashPasswordSaltDropped(password, salt) ==
    salt \o <<Colon>> \o toHex(scrypt(password, <<>>))

\* hashPassword(password) with the salt generateSalt() drew:
\* `${salt}:${derivedKey.toString("hex")}`.
hashPassword(password, salt) ==
    salt \o <<Colon>> \o toHex(scrypt(password, salt))

\* storedHash.split(":")
RECURSIVE splitColon(_)
splitColon(text) ==
    IF text = <<>> THEN << <<>> >>
    ELSE LET rest == splitColon(Tail(text)) IN
         IF Head(text) = Colon THEN << <<>> >> \o rest
         ELSE << <<Head(text)>> \o Head(rest) >> \o Tail(rest)

\* crypto.timingSafeEqual(a, b) on buffers of one byte length.
timingSafeEqual(a, b) == a = b

\* How a comparePassword call ends: its promise resolves with a value, or
\* the scrypt callback throws and the promise is never settled.
Resolved(value) == [settled |-> TRUE, value |-> value]
CallbackThrew == [settled |-> FALSE, value |-> FALSE]

\* comparePassword(password, storedHash): false without a salt or a key
\* part; else the key is re-derived and, in the scrypt callback,
\* timingSafeEqual(Buffer.from(hash, "hex"), derivedKey) is resolved, which
\* throws a RangeError on buffers of different byte lengths.
comparePasswordRun(password, storedHash) ==
    LET parts == splitColon(storedHash)
        salt == IF Len(parts) >= 1 THEN parts[1] ELSE <<>>
        hash == IF Len(parts) >= 2 THEN parts[2] ELSE <<>>
        derivedKey == scrypt(password, salt)
    IN IF salt = <<>> \/ hash = <<>> THEN Resolved(FALSE)
       ELSE IF byteLength(fromHex(hash)) # byteLength(derivedKey) THEN CallbackThrew
       ELSE Resolved(timingSafeEqual(fromHex(hash), derivedKey))

\* A compare that accepts every password.
comparePasswordAlwaysTrue(password, storedHash) == TRUE

\* What await comparePassword(password, storedHash) gives, for a stored
\* hash that hashPassword wrote (as every row of users holds).
comparePassword(password, storedHash) ==
    comparePasswordRun(password, storedHash).value

\* Salt texts, as generateSalt() returns them.
Salt(name) == << [salt |-> name] >>

\* email.toLowerCase() over the addresses tried.
toLowerCase(email) == IF email = "A@B.com" THEN "a@b.com" ELSE email

\* The users table at the start: an active user, an active guest and a
\* deactivated user, each with the hash of the password they chose
\* (lastLoginAt: <<>> for null, <<t>> for a date).
UsersTable ==
    { [id |-> "u1", email |-> "a@b.com", role |-> "user", isActive |-> TRUE,
       passwordHash |-> hashPassword("pw-a", Salt("s1")), lastLoginAt |-> <<>>],
      [id |-> "u2", email |-> "c@d.com", role |-> "guest", isActive |-> TRUE,
       passwordHash |-> hashPassword("pw-c", Salt("s2")), lastLoginAt |-> <<>>],
      [id |-> "u3", email |-> "g@h.com", role |-> "user", isActive |-> FALSE,
       passwordHash |-> hashPassword("pw-g", Salt("s1")), lastLoginAt |-> <<>>] }

\* UserModel.findByEmail: SELECT * FROM users WHERE email = $1 with the
\* lower-cased address; result.rows[0] ?? null.
findByEmail(rows, email) ==
    LET result == {row \in rows : row.email = toLowerCase(email)}
    IN IF result = {} THEN Null ELSE CHOOSE row \in result : TRUE

\* What login answers, and what happened on the way (why: the branch taken).
LoginFailure(why) ==
    [response |-> [success |-> FALSE, error |-> "Invalid credentials",
                   statusCode |-> 401],
     why |-> why, tokens |-> Null, user |-> Null]
LoginSuccess(user, tokens) ==
    [response |-> [success |-> TRUE, data |-> tokens, statusCode |-> 200],
     why |-> "ok", tokens |-> tokens, user |-> user]

\* AuthController.login(credentials) at time t, jti the next UUID.
login(rows, email, password, t, jti) ==
    LET user == findByEmail(rows, email)
    IN IF user = Null THEN LoginFailure("user not found")
       ELSE IF ~user.isActive THEN LoginFailure("user not active")
       ELSE IF ~comparePassword(password, user.passwordHash)
            THEN LoginFailure("wrong password")
       ELSE LoginSuccess(user, createTokenPair(user.id, user.email, user.role,
                                               t, jti))

\* The addresses and passwords sent to POST /auth/login.
LoginEmails == {"a@b.com", "A@B.com", "c@d.com", "g@h.com", "e@f.com"}
LoginPasswords == {"pw-a", "pw-c", "pw-g", ""}

\* UserModel.update(id, {lastLoginAt}): UPDATE users SET ... WHERE id = $n.
updateLastLoginAt(rows, id, t) ==
    {IF row.id = id THEN [row EXCEPT !.lastLoginAt = <<t>>] ELSE row :
        row \in rows}

\* POST /auth/login: controller.login and res.status(...).json(result); on
\* success the session is created and the user's lastLoginAt is set before
\* the answer is sent (the audit row goes to a table nothing here reads).
AuthControllerLogin ==
    \E email \in LoginEmails : \E password \in LoginPasswords :
        LET out == login(users, email, password, now, uuids + 1)
        IN /\ nlogins < MaxLogins
           /\ nlogins' = nlogins + 1
           /\ resp' = [email |-> email, password |-> password,
                       why |-> out.why, response |-> out.response]
           /\ users' = IF out.why = "ok"
                        THEN updateLastLoginAt(users, out.user.id, now)
                        ELSE users
           /\ refusals' = IF out.why = "ok" THEN refusals
                           ELSE refusals \cup {[why |-> out.why,
                                                 response |-> out.response]}
           /\ IF out.why = "ok"
              THEN /\ sessions' = sessions \cup
                         {create(out.user.id, out.tokens, now, uuids + 3)}
                   /\ issued' = Append(issued, [by |-> "login",
                                                 tokens |-> out.tokens])
                   /\ stored' = stored \cup
                         {[id |-> uuids + 3, token |-> out.tokens.refreshToken]}
                   /\ uuids' = uuids + 3
              ELSE UNCHANGED <<sessions, issued, stored, uuids>>
           /\ UNCHANGED <<now, ticks, tokenVars, gateVars, rateVars,
                          calls, ncalls, ret, rotated, permVars, destroyed,
                          hashed, cmp, dbVars>>

\* UserModel.delete(id): DELETE FROM users WHERE id = $1.
DeleteUser ==
    \E id \in {row.id : row \in users} :
        /\ users' = {row \in users : row.id # id}
        /\ resp' = Null
        /\ UNCHANGED <<now, ticks, uuids, tokenVars, gateVars, rateVars,
                       sessionVars, permVars, auditVars, nlogins, refusals,
                       hashed, cmp, dbVars>>

\* Time passes between logins.
LoginClockAdvance ==
    /\ ticks < MaxSessionTicks
    /\ now' = now + JWT_EXPIRY * 1000
    /\ ticks' = ticks + 1
    /\ resp' = Null
    /\ UNCHANGED <<uuids, tokenVars, gateVars, rateVars, sessionVars,
                   permVars, auditVars, users, nlogins, refusals, hashed, cmp,
                   dbVars>>

\* The passwords hashed and tried, and the salts generateSalt() may draw.
Passwords == {"pw-a", "pw-c", ""}
Salts == {Salt("s1"), Salt("s2")}

\* hashPassword(password): a salt is drawn and the hash returned.
HashPassword ==
    \E password \in Passwords, salt \in Salts :
        /\ hashed' = [password |-> password, salt |-> salt,
                      storedHash |-> hashPassword(password, salt)]
        /\ cmp' = Null
        /\ UNCHANGED <<now, ticks, uuids, tokenVars, gateVars, rateVars,
                       sessionVars, permVars, auditVars,
                       resp, users, nlogins, refusals, dbVars>>

\* A key with the byte at index i replaced.
withByteChanged(key, i) == [key EXCEPT !.changed = @ \cup {i}]

\* Stored values that are no hash of hashPassword, made from one that is:
\* the salt alone (no separator), an empty salt, an empty key part, the
\* empty string, a key part one byte short, a key part that is no hex.
MalformedHashes(h) ==
    LET parts == splitColon(h)
        key == fromHex(parts[2])
    IN { parts[1],
         <<Colon>> \o parts[2],
         parts[1] \o <<Colon>>,
         <<>>,
         parts[1] \o <<Colon>> \o toHex([key EXCEPT !.length = KEY_LENGTH - 1]),
         parts[1] \o <<Colon>> \o <<[text |-> "zz"]>> }

\* Stored values of the right shape whose key differs from the hashed one in
\* its first byte only, in a middle byte only, in its last byte only.
NearMisses(h) ==
    LET parts == splitColon(h)
        key == fromHex(parts[2])
    IN { parts[1] \o <<Colon>> \o toHex(withByteChanged(key, i)) :
            i \in {1, KEY_LENGTH \div 2, KEY_LENGTH} }

\* comparePassword(password, storedHash) against the hash just made, a
\* malformed value or a near miss.
ComparePassword ==
    /\ hashed # Null
    /\ \E password \in Passwords,
          storedHash \in {hashed.storedHash}
                           \cup MalformedHashes(hashed.storedHash)
                           \cup NearMisses(hashed.storedHash) :
          LET run == comparePasswordRun(password, storedHash)
          IN cmp' = [password |-> password, storedHash |-> storedHash,
                     settled |-> run.settled, value |-> run.value]
    /\ UNCHANGED <<now, ticks, uuids, tokenVars, gateVars, rateVars,
                   sessionVars, permVars, auditVars,
                   resp, users, nlogins, refusals, hashed, dbVars>>

-----------------------------------------------------------------------------
(* api/routes/auth-routes.ts: the throttled routes of registerAuthRoutes,   *)
(* each registered as router.post(path, rateLimitAuth(...), handler), with  *)
(* utils/validators.ts and AuthController.signup / forgotPassword.  The     *)
(* router runs a route's handlers in the order of registration, the next    *)
(* one when the one before called next().                                   *)

MaxRequests == 6
MaxRouteTicks == 1

AuthRoutes ==
    {[path |-> "/auth/login", maxAttempts |-> 5, windowMs |-> 900000,
      op |-> "login"],
     [path |-> "/auth/signup", maxAttempts |-> 3, windowMs |-> 3600000,
      op |-> "signup"],
     [path |-> "/auth/forgot-password", maxAttempts |-> 3, windowMs |-> 3600000,
      op |-> "forgotPassword"]}

\* A registration with the controller's handler ahead of the limiter.
handlersControllerFirst(route) == <<route.op, "rateLimitAuth">>

\* The handlers of a route in the order router.post receives them.
handlers(route) == <<"rateLimitAuth", route.op>>

\* ValidationResult
Valid == [valid |-> TRUE]
Invalid(error) == [valid |-> FALSE, error |-> error]

\* The validators over the values sent here: "not-an-email" fails
\* EMAIL_REGEX, "ab" fails USERNAME_REGEX, "pw-a" is shorter than
\* MIN_PASSWORD_LENGTH; the other values pass every test.
validateEmail(email) ==
    IF email = "" THEN Invalid("Email is required")
    ELSE IF email = "not-an-email" THEN Invalid("Invalid email format")
    ELSE Valid

validateUsername(username) ==
    IF username = "" THEN Invalid("Username is required")
    ELSE IF username = "ab"
         THEN Invalid("Username must be 3-30 characters, alphanumeric with _ and -")
    ELSE Valid

validatePassword(password) ==
    IF password = "" THEN Invalid("Password is required")
    ELSE IF password = "pw-a"
         THEN Invalid("Password must be at least 8 characters")
    ELSE Valid

\* What a controller operation answers, which of the user lookup and the
\* password comparison it reached, and the user and the pair it made.
Answer(response, reached, user, tokens) ==
    [response |-> response, reached |-> reached, user |-> user,
     tokens |-> tokens]

\* UserModel.create(data): the row inserted (id: the UUID drawn).
createUser(email, passwordHash, id) ==
    [id |-> id, email |-> toLowerCase(email), role |-> "user",
     isActive |-> TRUE, passwordHash |-> passwordHash, lastLoginAt |-> <<>>]

\* AuthController.signup(data) at time t, with the salt and the UUIDs drawn.
signup(rows, data, salt, t, id, jti) ==
    LET emailCheck == validateEmail(data.email)
        usernameCheck == validateUsername(data.username)
        passwordCheck == validatePassword(data.password)
    IN IF ~emailCheck.valid
       THEN Answer(Failure(400, emailCheck.error), {}, Null, Null)
       ELSE IF ~usernameCheck.valid
       THEN Answer(Failure(400, usernameCheck.error), {}, Null, Null)
       ELSE IF ~passwordCheck.valid
       THEN Answer(Failure(400, passwordCheck.error), {}, Null, Null)
       ELSE IF data.password # data.confirmPassword
       THEN Answer(Failure(400, "Passwords do not match"), {}, Null, Null)
       ELSE IF findByEmail(rows, data.email) # Null
       THEN Answer(Failure(409, "Email already in use"), {"findByEmail"},
                   Null, Null)
       ELSE LET user == createUser(data.email,
                                   hashPassword(data.password, salt), id)
                tokens == createTokenPair(user.id, user.email, user.role, t, jti)
            IN Answer([success |-> TRUE, data |-> tokens, statusCode |-> 201],
                      {"findByEmail"}, user, tokens)

\* AuthController.forgotPassword(email)
forgotPassword(rows, email) ==
    Answer([success |-> TRUE,
            message |-> "If that email exists, a reset link has been sent",
            statusCode |-> 200],
           {"findByEmail"}, Null, Null)

\* AuthController.login through its route: the lookup is always made, the
\* comparison when an active user was found.
loginRoute(rows, body, t, jti) ==
    LET out == login(rows, body.email, body.password, t, jti)
    IN Answer(out.response,
              IF out.why \in {"user not found", "user not active"}
              THEN {"findByEmail"} ELSE {"findByEmail", "comparePassword"},
              out.user, out.tokens)

\* req.body of the requests sent to each route.
SignupData(email, username, password, confirmPassword) ==
    [email |-> email, username |-> username, password |-> password,
     confirmPassword |-> confirmPassword]

Bodies(op) ==
    CASE op = "login" ->
           {[email |-> "a@b.com", password |-> "pw-a"],
            [email |-> "a@b.com", password |-> ""],
            [email |-> "e@f.com", password |-> "pw-a"]}
      [] op = "signup" ->
           {SignupData("e@f.com", "eve", "Passw0rd", "Passw0rd"),
            SignupData("a@b.com", "eve", "Passw0rd", "Passw0rd"),
            SignupData("not-an-email", "eve", "Passw0rd", "Passw0rd"),
            SignupData("e@f.com", "eve", "Passw0rd", "Passw0rd1")}
      [] op = "forgotPassword" ->
           {[email |-> "a@b.com"], [email |-> "e@f.com"]}

\* The requests come from one client: the one address of Ips.
Client == CHOOSE ip \in Ips : ip # Null

\* A POST to a throttled route arrives when the request before it is done;
\* requests are numbered as they arrive.
AuthRequest ==
    \E route \in AuthRoutes, ip \in {Client} :
        \E body \in Bodies(route.op) :
            /\ pipe = Null \/ (Finished /\ pipe.n < MaxRequests)
            /\ req' = [ip |-> ip, body |-> body]
            /\ res' = Null
            /\ pipe' = [path |-> route.path, chain |-> handlers(route),
                        ran |-> <<>>, handled |-> FALSE,
                        n |-> IF pipe = Null THEN 1 ELSE pipe.n + 1]
            /\ chk' = Null
            /\ UNCHANGED <<now, ticks, uuids, tokenVars, rateLimitStore, win,
                           sessionVars, permVars, auditVars, loginVars, dbVars>>

\* Time passes between two steps: one login window (a signup window opened
\* at the same time is still open).
RouteClockAdvance ==
    /\ ticks < MaxRouteTicks
    /\ now' = now + 900000
    /\ ticks' = ticks + 1
    /\ UNCHANGED <<uuids, tokenVars, gateVars, rateVars, sessionVars,
                   permVars, auditVars, loginVars, dbVars>>

\* The window in which an endpoint's own requests from one address are
\* counted: it opens with the endpoint's first request after its last own
\* window ended and lasts the endpoint's windowMs.  ownWindows is, per path,
\* that window's end and the requests to the path allowed in it (Null: the
\* address has sent nothing yet).
OwnWindow(ownWindows, path) ==
    IF ownWindows = Null THEN Null ELSE ownWindows[path]

\* The route's limiter runs: the entry of the key before and after it.
RouteRateLimit ==
    \E route \in AuthRoutes :
        LET key == rateLimitKey(req)
            out == rateLimitAuth(route.maxAttempts, route.windowMs,
                                 rateLimitStore, req, now)
        IN /\ Due("rateLimitAuth")
           /\ pipe.path = route.path
           /\ rateLimitStore' = out.store
           /\ res' = out.res
           /\ pipe' = [pipe EXCEPT !.ran =
                  Append(@, [mw |-> "rateLimitAuth", next |-> out.next,
                             at |-> now, key |-> key,
                             before |-> rateLimitStore[key],
                             after |-> out.store[key]])]
           /\ UNCHANGED <<now, ticks, uuids, tokenVars, req, win, chk,
                          sessionVars, permVars, auditVars, loginVars, dbVars>>

\* A request to a throttled route passes through the route's limiter (what
\* is done with it afterwards does not touch the store).  chk keeps the
\* number of the request, the limiter's answer, and the requests to this
\* path allowed in the path's own window before it (ownBefore) and with it
\* (own).
ThrottledRequest ==
    \E route \in AuthRoutes, ip \in Ips :
        LET r == [ip |-> ip]
            key == rateLimitKey(r)
            out == rateLimitAuth(route.maxAttempts, route.windowMs,
                                 rateLimitStore, r, now)
            own == OwnWindow(win[key], route.path)
            ownOpen == own # Null /\ own.resetAt > now
            w == IF ownOpen THEN [own EXCEPT !.allowed = @ + out.next]
                 ELSE [resetAt |-> now + route.windowMs, allowed |-> out.next]
        IN /\ IF chk = Null THEN TRUE ELSE chk.n < MaxRequests
           /\ rateLimitStore' = out.store
           /\ win' = [win EXCEPT ![key] =
                         [p \in {x.path : x \in AuthRoutes} |->
                             IF p = route.path THEN w
                             ELSE OwnWindow(win[key], p)]]
           /\ chk' = [n |-> IF chk = Null THEN 1 ELSE chk.n + 1,
                      key |-> key, path |-> route.path,
                      maxAttempts |-> route.maxAttempts,
                      res |-> out.res, next |-> out.next,
                      ownBefore |-> IF ownOpen THEN own.allowed ELSE 0,
                      own |-> w.allowed]
           /\ UNCHANGED <<now, ticks, uuids, tokenVars, gateVars,
                          sessionVars, permVars, auditVars, loginVars, dbVars>>

\* The route's own handler: await the controller operation, then
\* res.status(result.statusCode).json(result).  A login or signup that
\* succeeds has stored its session (and signup its user, login the user's
\* lastLoginAt) before the answer is sent.
AuthRouteHandler ==
    \E route \in AuthRoutes, salt \in Salts :
        LET out == CASE route.op = "login" ->
                          loginRoute(users, req.body, now, uuids + 1)
                     [] route.op = "signup" ->
                          signup(users, req.body, salt, now, "u4", uuids + 1)
                     [] route.op = "forgotPassword" ->
                          forgotPassword(users, req.body.email)
        IN /\ Due(route.op)
           /\ pipe.path = route.path
           /\ res' = [status |-> out.response.statusCode, body |-> out.response]
           /\ pipe' = [pipe EXCEPT !.handled = TRUE,
                                   !.ran = Append(@, [mw |-> route.op, next |-> 0,
                                                      at |-> now,
                                                      reached |-> out.reached])]
           /\ users' = IF out.tokens = Null THEN users
                        ELSE IF route.op = "signup" THEN users \cup {out.user}
                        ELSE updateLastLoginAt(users, out.user.id, now)
           /\ IF out.tokens # Null
              THEN /\ sessions' = sessions \cup
                         {create(out.user.id, out.tokens, now, uuids + 3)}
                   /\ issued' = Append(issued, [by |-> route.op,
                                                 tokens |-> out.tokens])
                   /\ stored' = stored \cup
                         {[id |-> uuids + 3, token |-> out.tokens.refreshToken]}
                   /\ uuids' = uuids + 3
              ELSE UNCHANGED <<sessions, issued, stored, uuids>>
           /\ UNCHANGED <<now, ticks, tokenVars, req, rateVars,
                          calls, ncalls, ret, rotated, permVars, destroyed,
                          resp, nlogins, refusals, hashed, cmp, dbVars>>

-----------------------------------------------------------------------------
(* api/controllers/user-controller.ts over api/models/user-model.ts: what   *)
(* each UserController operation sends to the users table and to the audit  *)
(* log, and how it ends.                                                    *)

\* UserModel.findById: SELECT * FROM users WHERE id = $1; rows[0] ?? null.
findById(rows, id) ==
    LET result == {row \in rows : row.id = id}
    IN IF result = {} THEN Null ELSE CHOOSE row \in result : TRUE

\* UserModel.update(id, {email}): UPDATE users SET email = $1 WHERE id = $n
\* (username is a column nothing here reads).
updateEmail(rows, id, email) ==
    {IF row.id = id THEN [row EXCEPT !.email = email] ELSE row : row \in rows}

\* UserModel.update(id, {passwordHash})
updatePasswordHash(rows, id, passwordHash) ==
    {IF row.id = id THEN [row EXCEPT !.passwordHash = passwordHash] ELSE row :
        row \in rows}

\* UserModel.delete(id): DELETE FROM users WHERE id = $1.
deleteUser(rows, id) == {row \in rows : row.id # id}

\* How a controller call went: its ending, the statements it sent, in
\* order, and the users table it left.
Went(end, did, rows) == [end |-> end, did |-> did, rows |-> rows]

\* UserController.<op> called with the role, the user id and the body, over
\* the users table; salt: the salt hashPassword draws.
UserControllerRun(op, role, userId, body, rows, salt) ==
    IF op # "getUserById" /\ RequiredPermission[op] # ""
          /\ requirePermission(role, RequiredPermission[op]) # Null
    THEN Went(Throws(requirePermission(role, RequiredPermission[op])), <<>>, rows)
    ELSE LET user == findById(rows, userId) IN
    CASE op = "getProfile" ->
           Went(IF user = Null THEN Returns(Failure(404, "User not found"))
                ELSE Returns(Success(200)),
                <<"users.findById">>, rows)
      [] op = "updateProfile" ->
           IF \/ (body.email # "" /\ ~validateEmail(body.email).valid)
              \/ (body.username # "" /\ ~validateUsername(body.username).valid)
           THEN Went(Returns(Failure(400, "validation")), <<>>, rows)
           ELSE IF user = Null
           THEN Went(Returns(Failure(404, "User not found")),
                     <<"users.update">>, rows)
           ELSE Went(Returns(Success(200)), <<"users.update", "auditLog.create">>,
                     IF body.email # "" THEN updateEmail(rows, userId, body.email)
                     ELSE rows)
      [] op = "changePassword" ->
           IF user = Null
           THEN Went(Returns(Failure(404, "User not found")),
                     <<"users.findById">>, rows)
           ELSE IF ~comparePassword(body.currentPassword, user.passwordHash)
           THEN Went(Returns(Failure(401, "Current password is incorrect")),
                     <<"users.findById">>, rows)
           ELSE IF ~validatePassword(body.newPassword).valid
           THEN Went(Returns(Failure(400, "validation")),
                     <<"users.findById">>, rows)
           ELSE Went(Returns(Success(200)),
                     <<"users.findById", "users.update", "auditLog.create">>,
                     updatePasswordHash(rows, userId,
                                        hashPassword(body.newPassword, salt)))
      [] op = "deleteAccount" ->
           IF user = Null
           THEN Went(Returns(Failure(404, "User not found")),
                     <<"users.delete">>, rows)
           ELSE Went(Returns(Success(200)), <<"users.delete", "auditLog.create">>,
                     deleteUser(rows, userId))
      [] op = "listUsers" ->
           Went(Returns(Success(200)), <<"users.list">>, rows)
      [] op = "getUserById" ->
           IF ~hasPermission(role, "read:any_profile")
           THEN Went(Returns(Failure(403, "Forbidden")), <<>>, rows)
           ELSE Went(IF user = Null THEN Returns(Failure(404, "User not found"))
                     ELSE Returns(Success(200)),
                     <<"users.findById">>, rows)

\* req.body of the requests to each operation's route.
UserBodies(op) ==
    CASE op = "updateProfile" ->
           {[email |-> "", username |-> "eve"],
            [email |-> "e@f.com", username |-> ""],
            [email |-> "not-an-email", username |-> ""],
            [email |-> "", username |-> "ab"]}
      [] op = "changePassword" ->
           {[currentPassword |-> "pw-a", newPassword |-> "Passw0rd"],
            [currentPassword |-> "pw-a", newPassword |-> "pw-a"],
            [currentPassword |-> "", newPassword |-> "Passw0rd"]}
      [] OTHER -> {[none |-> TRUE]}

\* The ids the calls are about: the users of the table and an id without a
\* row.
UserIds == {"u1", "u2", "u9"}

\* A call of a UserController operation: resp keeps the call, how it went
\* and the users table it found.
UserControllerCall ==
    \E op \in DOMAIN RequiredPermission, role \in Roles, userId \in UserIds :
        \E body \in UserBodies(op), salt \in Salts :
            LET went == UserControllerRun(op, role, userId, body, users, salt)
            IN /\ nlogins < MaxLogins
               /\ nlogins' = nlogins + 1
               /\ users' = went.rows
               /\ resp' = [op |-> op, role |-> role, userId |-> userId,
                           body |-> body, end |-> went.end, did |-> went.did,
                           found |-> users]
               /\ UNCHANGED <<now, ticks, uuids, tokenVars, gateVars, rateVars,
                              sessionVars, permVars, auditVars, refusals,
                              hashed, cmp, dbVars>>

StartTimes == {999}

Init ==
    /\ now \in StartTimes
    /\ ticks = 0
    /\ uuids = 0
    /\ cur = Null
    /\ vr = Null
    /\ req = Null
    /\ res = Null
    /\ pipe = Null
    /\ rateLimitStore = [key \in Keys |-> Null]
    /\ win = [key \in Keys |-> Null]
    /\ chk = Null
    /\ sessions = {}
    /\ issued = <<>>
    /\ calls = [p \in Procs |-> Null]
    /\ ncalls = 0
    /\ ret = Null
    /\ rotated = {}
    /\ perm = Null
    /\ stored = {}
    /\ destroyed = {}
    /\ resp = Null
    /\ users = UsersTable
    /\ nlogins = 0
    /\ refusals = {}
    /\ hashed = Null
    /\ cmp = Null
    /\ connected = TRUE
    /\ fault = Null

NextToken ==
    \/ GenerateAccessToken
    \/ GenerateRefreshToken
    \/ ClockAdvance
    \/ VerifyToken

SpecToken == Init /\ [][NextToken]_vars

NextGate ==
    \/ GenerateAccessToken
    \/ GenerateRefreshToken
    \/ ClockAdvance
    \/ Request
    \/ AuthenticateRequest
    \/ RequireRole
    \/ OptionalAuth
    \/ RouteHandler

SpecGate == Init /\ [][NextGate]_vars

NextSession ==
    \/ Login
    \/ Destroy
    \/ RefreshCall
    \/ RefreshSelect
    \/ RefreshUpdate
    \/ refreshToken
    \/ SessionClockAdvance

SpecSession == Init /\ [][NextSession]_vars

NextFault ==
    \/ Login
    \/ Destroy
    \/ RefreshCall
    \/ RefreshSelect
    \/ RefreshUpdate
    \/ refreshToken
    \/ Disconnect
    \/ Connect
    \/ CreateFails
    \/ DestroyFails
    \/ RefreshSelectFails
    \/ RefreshUpdateFails
    \/ StorageErrorPropagates

SpecFault == Init /\ [][NextFault]_vars

NextRate ==
    \/ RateLimitAuth
    \/ RateClockAdvance

SpecRate == Init /\ [][NextRate]_vars

NextPerm ==
    \/ HasPermission
    \/ RequirePermission
    \/ IsAdmin

SpecPerm == Init /\ [][NextPerm]_vars

NextUser ==
    \/ GenerateAccessToken
    \/ GenerateRefreshToken
    \/ ClockAdvance
    \/ Request
    \/ AuthenticateRequest
    \/ RequireRole
    \/ OptionalAuth
    \/ RouteHandler
    \/ UserRouteHandler

SpecUser == Init /\ [][NextUser]_vars

NextLogin ==
    \/ AuthControllerLogin
    \/ DeleteUser
    \/ LoginClockAdvance

SpecLogin == Init /\ [][NextLogin]_vars

NextAuthRoutes ==
    \/ AuthRequest
    \/ RouteRateLimit
    \/ AuthRouteHandler
    \/ RouteClockAdvance

SpecAuthRoutes == Init /\ [][NextAuthRoutes]_vars

\* POST /auth/logout arrives with the access token of a pair handed out and
\* a session id in its body: the id of a stored session (the caller's or
\* not) or of none.
LogoutRequest ==
    \E i \in DOMAIN issued, sessionId \in {row.id : row \in sessions} \cup {0} :
        /\ ret = Null /\ fault = Null
        /\ pipe = Null \/ Finished
        /\ req' = [headers |-> [authorization |->
                       BearerPrefix \o issued[i].tokens.accessToken],
                   user |-> Null,
                   body |-> [sessionId |-> sessionId]]
        /\ res' = Null
        /\ pipe' = [chain |-> <<"authenticateRequest", "logout">>,
                    ran |-> <<>>, handled |-> FALSE]
        /\ UNCHANGED <<now, ticks, uuids, tokenVars, rateVars, sessionVars,
                       permVars, auditVars, loginVars, dbVars>>

\* The route's handler: controller.logout(req.body.sessionId, req.user.sub),
\* that is sessions.destroy(sessionId), then the Logout audit entry for
\* userId, then 200 "Logged out".
LogoutHandler ==
    /\ Due("logout")
    /\ connected
    /\ LET sessionId == req.body.sessionId
           userId == req.user.sub
       IN /\ sessions' = destroy(sessions, sessionId)
          /\ destroyed' = destroyed \cup
                 {row.id : row \in {r \in sessions : r.id = sessionId}}
          /\ res' = [status |-> 200,
                     body |-> [success |-> TRUE, message |-> "Logged out",
                               statusCode |-> 200]]
          /\ pipe' = [pipe EXCEPT
                 !.handled = TRUE,
                 !.ran = Append(@, [mw |-> "logout", next |-> 0, at |-> now,
                                    sessionId |-> sessionId,
                                    audit |-> [userId |-> userId,
                                               action |-> "logout"],
                                    before |-> sessions])]
    /\ UNCHANGED <<now, ticks, uuids, tokenVars, req, rateVars,
                   issued, calls, ncalls, ret, rotated,
                   permVars, stored, loginVars, dbVars>>

NextLogout ==
    \/ Login
    \/ SessionClockAdvance
    \/ LogoutRequest
    \/ AuthenticateRequest
    \/ LogoutHandler

SpecLogout == Init /\ [][NextLogout]_vars

\* requireRole as registerUserRoutes installs it: requireRole(Admin,
\* Moderator) on GET /users and GET /users/:id.
RequireRoleOfRoute ==
    \E r \in {x \in UserRoutes : Len(x.chain) = 2} :
        /\ Due("requireRole")
        /\ Ran("requireRole", r.roles, requireRole(r.roles, req))
        /\ UNCHANGED <<now, ticks, uuids, tokenVars, rateVars, sessionVars,
                       permVars, auditVars, loginVars, dbVars>>

NextGateSessions ==
    \/ Login
    \/ Destroy
    \/ RefreshCall
    \/ RefreshSelect
    \/ RefreshUpdate
    \/ refreshToken
    \/ IssuedTokenRequest
    \/ AuthenticateRequest
    \/ RequireRoleOfRoute

SpecGateSessions == Init /\ [][NextGateSessions]_vars

NextValidate ==
    \/ Login
    \/ Destroy
    \/ SessionClockAdvance
    \/ Validate

SpecValidate == Init /\ [][NextValidate]_vars

NextUserOps ==
    \/ UserControllerCall

SpecUserOps == Init /\ [][NextUserOps]_vars

NextThrottle ==
    \/ ThrottledRequest
    \/ RouteClockAdvance

SpecThrottle == Init /\ [][NextThrottle]_vars

NextHash ==
    \/ HashPassword
    \/ ComparePassword

SpecHash == Init /\ [][NextHash]_vars

-----------------------------------------------------------------------------
(* TokenService properties, checked under SpecToken *)

\* The verifyToken call just made was on the minted token itself.
OnMinted == cur # Null /\ vr # Null /\ vr.token = cur.token

\* C6: verifyToken of a freshly minted token, asked for the kind it was
\* minted as and with no clock advance since the mint, returns a payload
\* equal to the minted one (sub, email, role, iat, exp, jti); once the
\* clock (in whole seconds) is past the payload's exp it returns null.
C6_MintVerifyRoundTrip ==
    (OnMinted /\ vr.isRefresh = cur.isRefresh) =>
        /\ vr.at = cur.at =>
              /\ vr.result # Null
              /\ \A k \in {"sub", "email", "role", "iat", "exp", "jti"} :
                     vr.result[k] = cur.payload[k]
              /\ vr.result = cur.payload
        /\ vr.at \div 1000 > cur.payload.exp => vr.result = Null

\* A minted token was verified as its own kind after its exp and refused.
C6_Witness ==
    /\ OnMinted
    /\ vr.isRefresh = cur.isRefresh
    /\ vr.at \div 1000 > cur.payload.exp
    /\ vr.result = Null

\* The request that carries the minted token as its bearer value.
BearerRequest ==
    [headers |-> [authorization |-> BearerPrefix \o cur.token], user |-> Null]

\* C5: token kinds are separated.  A token minted by generateAccessToken is
\* refused by verifyToken(token, isRefresh = true) and one minted by
\* generateRefreshToken by verifyToken(token, isRefresh = false), at any
\* time; so a refresh token as bearer value is turned away by
\* authenticateRequest with 401, and an access token fails the verifyToken
\* step that SessionManager.refresh begins with.
C5_TokenKindsSeparated ==
    /\ (OnMinted /\ vr.isRefresh # cur.isRefresh) => vr.result = Null
    /\ (cur # Null /\ cur.isRefresh) =>
           /\ verifyToken(cur.token, FALSE, now) = Null
           /\ authenticateRequest(BearerRequest, now).next = 0
           /\ authenticateRequest(BearerRequest, now).res =
                  Rejected(401, "Invalid or expired token")
    /\ (cur # Null /\ ~cur.isRefresh) => verifyToken(cur.token, TRUE, now) = Null

\* An unexpired refresh token was verified as an access token and refused.
C5_Witness ==
    /\ OnMinted
    /\ cur.isRefresh
    /\ ~vr.isRefresh
    /\ vr.at \div 1000 <= cur.payload.exp
    /\ vr.result = Null
    /\ verifyToken(cur.token, TRUE, vr.at) = cur.payload

\* The segments of the token just verified (none for what is no string).
VerifiedParts == IF vr.token = NoString THEN <<>> ELSE split(vr.token)

\* C23: verifyToken never lets an exception out.  For an input that does
\* not split into exactly 3 segments (or is no string), and for one whose
\* payload segment does not decode to JSON text, it returns null; whatever
\* the input, what reaches the caller is null or a payload, never an
\* exception.
C23_VerifyTokenNeverThrows ==
    vr # Null =>
        /\ vr.result # Propagated
        /\ Len(VerifiedParts) # 3 => vr.result = Null
        /\ (Len(VerifiedParts) = 3
               /\ ~IsJSON(base64urlDecode(VerifiedParts[2]))) => vr.result = Null
        /\ vr.caught => vr.result = Null

\* A well-sealed token whose payload segment is no JSON has been verified:
\* JSON.parse threw inside the try block and the call returned null.
C23_Witness ==
    /\ vr # Null
    /\ vr.caught
    /\ vr.steps = <<"split", "hmac", "parse">>
    /\ vr.result = Null

\* The lifetime configured for the kind of the token just minted.
MintedTTL == IF cur.isRefresh THEN REFRESH_EXPIRY ELSE JWT_EXPIRY

\* C28: every minted payload has exp = iat + JWT_EXPIRY (access) or
\* exp = iat + REFRESH_EXPIRY (refresh), whatever the clock does while the
\* payload is built.
C28_ExpIsIatPlusTTL ==
    cur # Null => cur.payload.exp = cur.payload.iat + MintedTTL

\* C29: a minted token verified as its own kind is accepted exactly while
\* the clock, in whole seconds, is not past its exp: still accepted in the
\* second exp, refused from the second exp + 1 on.
C29_ExpiryBoundary ==
    (OnMinted /\ vr.isRefresh = cur.isRefresh) =>
        /\ vr.at \div 1000 <= cur.payload.exp => vr.result = cur.payload
        /\ vr.at \div 1000 = cur.payload.exp => vr.result # Null
        /\ vr.at \div 1000 >= cur.payload.exp + 1 => vr.result = Null

\* A minted token has been verified in the very second of its exp and
\* accepted.
C29_Witness ==
    /\ OnMinted
    /\ vr.isRefresh = cur.isRefresh
    /\ vr.at \div 1000 = cur.payload.exp
    /\ vr.result = cur.payload

\* The third segment of the token just verified is the HMAC of its first two
\* under the secret of the kind asked for.
SignatureMatches ==
    VerifiedParts[3] =
        hmacDigest(IF vr.isRefresh THEN refreshSecret ELSE accessSecret,
                   VerifiedParts[1] \o <<Dot>> \o VerifiedParts[2])

\* C30: for every three-segment token whose third segment is not that HMAC,
\* verifyToken returns null whatever the payload says, and the payload is
\* not parsed nor its exp read; parsing and the exp test only ever run after
\* the signature comparison, on a token whose signature matched.
C30_SignatureBeforeTrust ==
    (vr # Null /\ Len(VerifiedParts) = 3) =>
        /\ ~SignatureMatches =>
              /\ vr.result = Null
              /\ vr.steps = <<"split", "hmac">>
        /\ \A i \in DOMAIN vr.steps :
              vr.steps[i] \in {"parse", "exp"} =>
                  /\ SignatureMatches
                  /\ \E j \in 1..(i - 1) : vr.steps[j] = "hmac"

\* The token with its payload rewritten to admin and a later exp, under the
\* old signature, has been verified before the original's exp and refused.
C30_Witness ==
    /\ cur # Null
    /\ vr # Null
    /\ vr.token = rewritten(cur.token)
    /\ vr.isRefresh = cur.isRefresh
    /\ decodeToken(vr.token).exp >= vr.at \div 1000
    /\ decodeToken(vr.token).role = "admin"
    /\ vr.result = Null

-----------------------------------------------------------------------------
(* AuthGate properties, checked under SpecGate *)

\* The Authorization header carries a non-empty value after "Bearer ".
CarriesBearer(h) ==
    /\ h # NoString
    /\ Len(h) > 7
    /\ \A i \in 1..7 : h[i] = BearerPrefix[i]

BearerValue(h) == [i \in 1..(Len(h) - 7) |-> h[i + 7]]

\* The handler named mw was the first of the chain and has run.
RanFirst(mw) == pipe # Null /\ Len(pipe.ran) >= 1 /\ pipe.ran[1].mw = mw

\* C7: when the Authorization header is absent or carries no non-empty
\* value after the "Bearer " prefix, authenticateRequest ends with the 401
\* "Authentication required" response, never calls next() and leaves
\* req.user unset; the route's handler is not reached.
C7_MissingCredential ==
    (RanFirst("authenticateRequest") /\ ~CarriesBearer(req.headers.authorization)) =>
        /\ res = Rejected(401, "Authentication required")
        /\ pipe.ran[1].next = 0
        /\ req.user = Null
        /\ Len(pipe.ran) = 1
        /\ ~pipe.handled

\* authenticateRequest turned away a header that holds a token but not after
\* the exact "Bearer " prefix.
C7_Witness ==
    /\ RanFirst("authenticateRequest")
    /\ req.headers.authorization # NoString
    /\ Len(req.headers.authorization) > 7
    /\ ~CarriesBearer(req.headers.authorization)
    /\ res = Rejected(401, "Authentication required")

\* C8: when a bearer value is present, authenticateRequest calls next() if
\* and only if verifyToken(value, access kind) returns a payload, and then
\* req.user is exactly that payload and nothing is sent; otherwise it ends
\* with the 401 "Invalid or expired token" response, next() is not called
\* and req.user stays unset.
C8_PresentedToken ==
    (RanFirst("authenticateRequest") /\ CarriesBearer(req.headers.authorization)) =>
        LET payload == verifyToken(BearerValue(req.headers.authorization),
                                   FALSE, pipe.ran[1].at)
        IN /\ pipe.ran[1].next \in {0, 1}
           /\ pipe.ran[1].next = 1 <=> payload # Null
           /\ payload # Null =>
                 /\ req.user = payload
                 /\ Len(pipe.ran) = 1 => res = Null
           /\ payload = Null =>
                 /\ res = Rejected(401, "Invalid or expired token")
                 /\ req.user = Null
                 /\ Len(pipe.ran) = 1
                 /\ ~pipe.handled

\* A minted access token, unexpired, passed authenticateRequest and its
\* payload is attached.
C8_Witness ==
    /\ RanFirst("authenticateRequest")
    /\ cur # Null
    /\ ~cur.isRefresh
    /\ req.headers.authorization = BearerPrefix \o cur.token
    /\ pipe.ran[1].next = 1
    /\ req.user = cur.payload
    /\ pipe.handled

\* requireRole(S) has run on a request with an attached payload.
RoleGateRan ==
    /\ pipe # Null
    /\ Len(pipe.ran) = 2
    /\ pipe.ran[2].mw = "requireRole"
    /\ req.user # Null

\* C9: a request whose attached payload has role R passes requireRole(S)
\* (next() is called) if and only if R is in S; when R is not in S the call
\* ends with 403 "Forbidden" and the route's handler is never invoked.
C9_RoleGate ==
    RoleGateRan =>
        LET R == req.user.role
            S == pipe.ran[2].roles
        IN /\ pipe.ran[2].next = 1 <=> R \in S
           /\ pipe.ran[2].next \in {0, 1}
           /\ R \in S => res = Null
           /\ R \notin S =>
                 /\ res = Rejected(403, "Forbidden")
                 /\ ~pipe.handled

\* A moderator was turned away by a gate that admits admins and users only.
C9_Witness ==
    /\ RoleGateRan
    /\ req.user.role = "moderator"
    /\ pipe.ran[2].roles = {"admin", "user"}
    /\ res = Rejected(403, "Forbidden")

\* C10: optionalAuth never rejects: whatever the header is, it calls next()
\* exactly once and sends no response; it sets req.user if and only if a
\* bearer value is present and verifies as an access token, and then to
\* that token's payload.
C10_OptionalAuthNeverRejects ==
    RanFirst("optionalAuth") =>
        LET h == req.headers.authorization
            valid == CarriesBearer(h) /\ verifyToken(BearerValue(h), FALSE,
                                                     pipe.ran[1].at) # Null
        IN /\ pipe.ran[1].next = 1
           /\ res = Null
           /\ req.user # Null <=> valid
           /\ valid => req.user = verifyToken(BearerValue(h), FALSE, pipe.ran[1].at)

\* optionalAuth let a request with an expired access token through to the
\* handler, with no user attached.
C10_Witness ==
    /\ RanFirst("optionalAuth")
    /\ cur # Null
    /\ ~cur.isRefresh
    /\ req.headers.authorization = BearerPrefix \o cur.token
    /\ now \div 1000 > cur.payload.exp
    /\ req.user = Null
    /\ pipe.handled

-----------------------------------------------------------------------------
(* Refresh rotation (SpecSession).                                          *)

\* C1: rotation is single-use.  A refresh call begun after some refresh call
\* with the same token has returned a pair never returns a pair: it returns
\* null, and it never gets as far as sending the UPDATE, whatever logins,
\* logouts, other refreshes and clock steps happen in between.
C1_RotationSingleUse ==
    /\ (ret # Null /\ ret.late) => ret.result = Null
    /\ \A p \in Procs : (calls[p] # Null /\ calls[p].late) => calls[p].pc = "select"

\* A rotated token, still well signed and unexpired, is presented again and
\* the call returns null at the lookup.
C1_Witness ==
    /\ ret # Null
    /\ ret.late
    /\ ret.result = Null
    /\ verifyToken(ret.token, TRUE, ret.at) # Null

\* C2: of the refresh calls made with one token, at most one returns a pair,
\* also when their lookups and updates interleave: a call that returns a pair
\* is the first call with its token to do so.
C2_AtMostOneConcurrentRefresh ==
    (ret # Null /\ ret.result # Null) => ~ret.spent

-----------------------------------------------------------------------------
(* RateLimiter properties, checked under SpecRate *)

\* The largest cap among the limiters that checked in window w.
MaxCap(w) == CHOOSE n \in w.caps : \A m \in w.caps : m <= n

\* C3: the cap.  A check by a limiter with cap N is allowed (no response,
\* next() called once) exactly when fewer than N checks were allowed before
\* it in the key's open window, and is otherwise blocked with 429 and next()
\* not called; so in a window whose checks all come from limiters with cap N
\* exactly the first N checks are allowed and every later one is blocked.
C3_RateLimiterCap ==
    chk # Null =>
        /\ chk.next \in {0, 1}
        /\ chk.next = 1 <=> chk.prior < chk.maxAttempts
        /\ win[chk.key].caps = {chk.maxAttempts} =>
              (chk.next = 1 <=> chk.idx <= chk.maxAttempts)
        /\ chk.next = 1 => chk.res = Null
        /\ chk.next = 0 => chk.res = Rejected(429, TooManyAttempts)

\* The login limiter (cap 5) blocked the sixth check of a window that it
\* alone had checked in.
C3_Witness ==
    /\ chk # Null
    /\ chk.maxAttempts = 5
    /\ win[chk.key].caps = {5}
    /\ chk.idx = 6
    /\ chk.next = 0
    /\ chk.res = Rejected(429, TooManyAttempts)

\* C4: no increment is lost.  Whatever the order of the requests of one
\* address, the entry's count is the number of checks allowed in the entry's
\* window, and that number is at most the cap of the limiters that checked
\* (the largest of them when limiters with different caps share the key).
C4_NoLostIncrement ==
    \A key \in Keys :
        rateLimitStore[key] # Null =>
            /\ win[key] # Null
            /\ rateLimitStore[key].resetAt = win[key].resetAt
            /\ rateLimitStore[key].count = win[key].allowed
            /\ win[key].allowed <= MaxCap(win[key])
            /\ win[key].caps = {3} => win[key].allowed <= 3

\* A window in which several checks were allowed one after another and more
\* were blocked: the count stands at the cap.
C4_Witness ==
    \E key \in Keys :
        /\ rateLimitStore[key] # Null
        /\ win[key].caps = {3}
        /\ win[key].checks = 5
        /\ win[key].allowed = 3
        /\ rateLimitStore[key].count = 3

\* C31: a blocked check leaves the store as it was.  A check that finds an
\* entry of its key with an open window and count >= maxAttempts is blocked
\* and the whole store (that entry's count and reset time, and every other
\* key's entry) stays unchanged; every blocked check is such a one; and an
\* allowed check changes the entry of its own key only.
C31_BlockedLeavesStore ==
    [][ (win' # win) =>
          LET key == chk'.key
              entry == rateLimitStore[key]
              atCap == /\ entry # Null
                       /\ entry.resetAt > now
                       /\ entry.count >= chk'.maxAttempts
          IN /\ (atCap <=> chk'.next = 0)
             /\ (chk'.next = 0 => rateLimitStore' = rateLimitStore)
             /\ (chk'.next = 1 => rateLimitStore'[key] # rateLimitStore[key])
             /\ (\A k \in Keys \ {key} :
                     rateLimitStore'[k] = rateLimitStore[k]) ]_vars

\* A check was blocked while the other key held an entry of its own, and the
\* blocked key's count stands at the cap.
C31_Witness ==
    /\ chk # Null
    /\ chk.next = 0
    /\ rateLimitStore[chk.key].count = chk.maxAttempts
    /\ \E k \in Keys \ {chk.key} : rateLimitStore[k] # Null

\* C32: window reset.  A check that finds no entry of its key, or an entry
\* whose window has elapsed (now >= its reset time), is allowed and leaves
\* an entry with count 1 and reset time now + windowMs, whatever the count
\* of the elapsed window was.
C32_WindowReset ==
    (chk # Null /\ (chk.found = Null \/ now >= chk.found.resetAt)) =>
        /\ chk.next = 1
        /\ chk.res = Null
        /\ rateLimitStore[chk.key] =
               [count |-> 1, resetAt |-> now + chk.windowMs]

\* A check made at the very reset time of a window whose count stood at the
\* login cap opened a new window.
C32_Witness ==
    /\ chk # Null
    /\ chk.found # Null
    /\ chk.found.resetAt = now
    /\ chk.found.count = 5
    /\ chk.next = 1
    /\ rateLimitStore[chk.key].count = 1

-----------------------------------------------------------------------------
(* PermissionModel properties, checked under SpecPerm *)

\* C11: hasPermission(role, permission) is true exactly when the permission
\* is in the list authored for the role in RolePermissions, and false for a
\* role without an entry; nothing is inherited: user lacks list:users though
\* moderator has it, guest holds read:own_profile only, admin holds every
\* permission.
C11_HasPermissionMatchesTable ==
    (perm # Null /\ perm.op = "hasPermission") =>
        /\ perm.role \notin UserRole => perm.result = FALSE
        /\ perm.role \in UserRole =>
              (perm.result <=>
                  \E i \in DOMAIN RolePermissions[perm.role] :
                      RolePermissions[perm.role][i] = perm.permission)
        /\ perm.role = "admin" => perm.result = TRUE
        /\ perm.role = "guest" =>
              (perm.result <=> perm.permission = "read:own_profile")
        /\ perm.role = "user" =>
              (perm.result <=> perm.permission \in
                  {"read:own_profile", "update:own_profile", "delete:own_account"})
        /\ perm.role = "moderator" =>
              (perm.result <=> perm.permission \in
                  {"read:own_profile", "update:own_profile", "delete:own_account",
                   "read:any_profile", "list:users", "view:audit_log"})

\* hasPermission refused list:users to a user.
C11_Witness ==
    /\ perm # Null
    /\ perm.op = "hasPermission"
    /\ perm.role = "user"
    /\ perm.permission = "list:users"
    /\ perm.result = FALSE
    /\ hasPermission("moderator", "list:users")

-----------------------------------------------------------------------------
(* UserController behind its routes, checked under SpecUser *)

\* The handler of a user route has run for the request.
UserRouteRan == pipe # Null /\ pipe.handled /\ "route" \in DOMAIN pipe

\* C12: an authenticated caller whose role lacks the permission that the
\* UserController operation requires gets the forbidden response: status
\* 403, not the 401 of an authentication failure.
C12_ForbiddenOnMissingPermission ==
    (/\ UserRouteRan
     /\ RequiredPermission[pipe.op] # ""
     /\ ~hasPermission(req.user.role, RequiredPermission[pipe.op])) =>
        /\ res # Null
        /\ res.status = 403

\* C13: a refresh whose token fails verifyToken(token, true) returns null
\* at once: no SELECT is sent for it (a call's SELECT is only ever sent for a
\* token that verifies as a refresh token at that moment), and the step that
\* returns leaves the rows of the sessions table, the calls in flight and the
\* record of what each session stored as they were.
C13_RefusedBeforeStorage ==
    [][ /\ \A p \in Procs :
              (calls[p] = Null /\ calls'[p] # Null) =>
                  verifyToken(calls'[p].token, TRUE, now) # Null
        /\ (ret = Null /\ ret' # Null /\ calls' = calls) =>
              /\ verifyToken(ret'.token, TRUE, now) = Null
              /\ ret'.result = Null
              /\ sessions' = sessions
              /\ stored' = stored
              /\ ncalls' = ncalls ]_vars

\* A refresh has just been refused at verification while sessions are stored.
C13_Witness ==
    /\ ret # Null
    /\ ret.result = Null
    /\ verifyToken(ret.token, TRUE, ret.at) = Null
    /\ sessions # {}

\* Some stored session holds token and expires after time t.
LiveSessionHolds(token, t) ==
    \E row \in sessions : row.refreshToken = token /\ row.expiresAt > t

\* C14: refresh(t) hands back a pair exactly when t verifies as a refresh
\* token and, when the lookup runs, some stored session holds t with its
\* expiry in the future; in every other case it returns null and the
\* sessions table is as it was.  Every call in flight passed verification;
\* a lookup that finds a live session goes on to return its new pair, a
\* lookup that finds none returns null; a null return changes no row.
C14_RefreshIffVerifiedAndLive ==
    /\ [](\A p \in Procs :
            calls[p] # Null =>
                /\ calls[p].payload # Null
                /\ (calls[p].pc = "update" => calls[p].newTokens # Null))
    /\ [][ /\ (\A p \in Procs :
                  (calls[p] # Null /\ calls[p].pc = "select"
                      /\ calls'[p] # calls[p]) =>
                      IF LiveSessionHolds(calls[p].token, now)
                      THEN /\ calls'[p] # Null
                           /\ calls'[p].pc = "update"
                           /\ ret' = Null
                      ELSE /\ calls'[p] = Null
                           /\ ret' # Null
                           /\ ret'.token = calls[p].token
                           /\ ret'.result = Null)
            /\ (\A p \in Procs :
                  (calls[p] # Null /\ calls[p].pc = "update"
                      /\ calls'[p] # calls[p]) =>
                      /\ calls'[p] = Null
                      /\ ret' # Null
                      /\ ret'.token = calls[p].token
                      /\ ret'.result = calls[p].newTokens)
            /\ ((ret = Null /\ ret' # Null /\ ret'.result = Null) =>
                  sessions' = sessions)
            /\ ((ret = Null /\ ret' # Null /\ ret'.result # Null) =>
                  \E p \in Procs : calls[p] # Null /\ calls[p].pc = "update"
                                       /\ calls'[p] = Null) ]_vars

\* A refresh token that verifies was refused because the session holding it
\* had expired.
C14_Witness ==
    /\ ret # Null
    /\ ret.result = Null
    /\ verifyToken(ret.token, TRUE, ret.at) # Null
    /\ \E row \in sessions :
           row.refreshToken = ret.token /\ row.expiresAt <= ret.at

\* C15: when refresh returns a pair, the pair is for the sub, email and role
\* of the presented token, its refresh token differs from the presented one,
\* and at the return some stored session holds exactly the returned refresh
\* token.
C15_ReturnedPairIsStored ==
    (ret # Null /\ ret.result # Null) =>
        LET old == decodeToken(ret.token)
            new == decodeToken(ret.result.refreshToken)
            acc == decodeToken(ret.result.accessToken)
        IN /\ new.sub = old.sub /\ new.email = old.email /\ new.role = old.role
           /\ acc.sub = old.sub /\ acc.email = old.email /\ acc.role = old.role
           /\ ret.result.refreshToken # ret.token
           /\ \E row \in sessions : row.refreshToken = ret.result.refreshToken

\* C16: in every reachable state no two stored sessions hold the same
\* refresh token.
C16_RefreshTokensDistinct ==
    \A r1 \in sessions : \A r2 \in sessions :
        r1.refreshToken = r2.refreshToken => r1 = r2

\* Two sessions are stored and one of them has been rotated.
C16_Witness ==
    /\ Cardinality(sessions) = 2
    /\ \E row \in sessions : \E t \in rotated :
           [id |-> row.id, token |-> t] \in stored /\ row.refreshToken # t

\* C17: every stored session expires one refresh-token lifetime
\* (REFRESH_EXPIRY seconds) after its creation.
C17_SessionLivesRefreshExpiry ==
    \A row \in sessions : row.expiresAt = row.createdAt + REFRESH_EXPIRY * 1000

\* The ids of the sessions stored now.
StoredIds == {row.id : row \in sessions}

\* C18: destroy is idempotent, changes nothing for an id that is not
\* stored, and never alters a session with a different id.  For the table
\* of every reachable state and every id ever used (and one never used): a
\* second destroy of the same id changes nothing, an absent id leaves the
\* table as it is, rows with other ids stay as they are; and every step
\* that removes or changes a row is the removal of rows with one id.
C18_DestroyIdempotentAndLocal ==
    /\ [](\A sessionId \in StoredIds \cup destroyed \cup {0} :
            LET once == destroy(sessions, sessionId)
            IN /\ destroy(once, sessionId) = once
               /\ (sessionId \notin StoredIds => once = sessions)
               /\ (\A row \in sessions : row.id # sessionId => row \in once)
               /\ (\A row \in once : row \in sessions /\ row.id # sessionId))
    /\ [][ destroyed' # destroyed =>
              \E sessionId \in StoredIds :
                  /\ destroyed' = destroyed \cup {sessionId}
                  /\ sessions' = {row \in sessions : row.id # sessionId} ]_vars

\* One session has been destroyed and another is still stored.
C18_Witness ==
    /\ destroyed # {}
    /\ sessions # {}
    /\ StoredIds \cap destroyed = {}

\* The refresh tokens ever stored in a session that has been destroyed.
DeadTokens == {s.token : s \in {x \in stored : x.id \in destroyed}}

\* C19: once a session is destroyed, validate(sessionId) returns null from
\* then on, and every refresh whose lookup runs from then on with a token
\* ever stored in that session returns null.
C19_DestroyedStaysDead ==
    /\ [](/\ \A sessionId \in destroyed :
                validate(sessions, sessionId, now) = Null
          /\ \A token \in DeadTokens :
                \A row \in sessions : row.refreshToken # token)
    /\ [][ \A p \in Procs :
              (calls[p] # Null /\ calls[p].pc = "select"
                  /\ calls[p].token \in DeadTokens
                  /\ calls'[p] # calls[p]) =>
                  /\ calls'[p] = Null
                  /\ ret' # Null
                  /\ ret'.token = calls[p].token
                  /\ ret'.result = Null ]_vars

\* A refresh token of a destroyed session, still verifying as a refresh
\* token, has just been refused by the lookup.
C19_Witness ==
    /\ ret # Null
    /\ ret.token \in DeadTokens
    /\ verifyToken(ret.token, TRUE, ret.at) # Null
    /\ ret.result = Null

\* The response login gives when it refuses.
InvalidCredentials ==
    [success |-> FALSE, error |-> "Invalid credentials", statusCode |-> 401]

\* C20: login answers success = false, "Invalid credentials", 401 for an
\* address with no user, for a deactivated user (whatever the password) and
\* for an active user with a wrong password, and answers otherwise only for
\* an active user with the password that was hashed; all the refusals
\* answered so far, whatever their cause, are one and the same response.
C20_LoginFailuresAlike ==
    /\ resp # Null =>
          LET rows == {row \in users : row.email = toLowerCase(resp.email)}
              refused == \/ rows = {}
                         \/ \E row \in rows :
                               \/ ~row.isActive
                               \/ row.passwordHash #
                                    hashPassword(resp.password,
                                                 splitColon(row.passwordHash)[1])
          IN /\ refused => resp.response = InvalidCredentials
             /\ ~refused => /\ resp.response.success
                            /\ resp.response.statusCode = 200
    /\ \A a \in refusals : \A b \in refusals : a.response = b.response

\* Login has been refused for an unknown address, for a deactivated user and
\* for a wrong password.
C20_Witness ==
    {r.why : r \in refusals} =
        {"user not found", "user not active", "wrong password"}

-----------------------------------------------------------------------------
(* Password hashing properties, checked under SpecHash *)

\* The comparePassword call just made was on the hash just made.
OnHashed == hashed # Null /\ cmp # Null /\ cmp.storedHash = hashed.storedHash

\* C24: comparePassword(p, hashPassword(p)) is true and, for p1 # p2,
\* comparePassword(p1, hashPassword(p2)) is false, whatever salt was drawn.
C24_PasswordRoundTrip ==
    OnHashed =>
        /\ cmp.settled
        /\ cmp.value = (cmp.password = hashed.password)

\* A password other than the hashed one has been compared with the hash and
\* refused.
C24_Witness ==
    /\ OnHashed
    /\ cmp.password # hashed.password
    /\ cmp.settled
    /\ ~cmp.value

\* C25: for a malformed stored hash comparePassword gives false and neither
\* throws nor rejects.
C25_MalformedHashGivesFalse ==
    (hashed # Null /\ cmp # Null
        /\ cmp.storedHash \in MalformedHashes(hashed.storedHash)) =>
        /\ cmp.settled
        /\ ~cmp.value

\* C27: at the moment refresh returns a pair, exactly one stored session
\* holds that pair's refresh token as its current refresh token, whatever
\* refresh and destroy calls ran in between.
C27_ReturnedPairRecordedOnce ==
    (ret # Null /\ ret.result # Null) =>
        Cardinality({row \in sessions :
                        row.refreshToken = ret.result.refreshToken}) = 1

-----------------------------------------------------------------------------
(* Storage failures, checked under SpecFault *)

\* C22: a storage statement that fails ends its call with the error and is
\* not sent again.  The step in which a statement fails writes nothing to
\* the sessions table, hands out no pair and returns nothing; if it was a
\* statement of a refresh, that call is over.  While the database is not
\* connected no row changes, no pair is handed out, and a call that moves
\* ends with its error.
C22_StorageFailurePropagates ==
    [][ /\ ((fault = Null /\ fault' # Null) =>
              /\ sessions' = sessions
              /\ stored' = stored
              /\ issued' = issued
              /\ ret' = Null
              /\ (fault'.op = "refresh" =>
                    \E p \in Procs :
                        /\ calls[p] # Null
                        /\ calls[p].token = fault'.about
                        /\ calls'[p] = Null))
        /\ (~connected =>
              /\ sessions' = sessions
              /\ issued' = issued
              /\ (ret' # Null => ret'.result = Null)
              /\ (\A p \in Procs :
                    (calls[p] # Null /\ calls'[p] # calls[p]) =>
                        (calls'[p] = Null /\ fault' # Null))) ]_vars

\* The UPDATE of a refresh has just failed: the call had found its session
\* and made its new pair.
C22_Witness ==
    /\ fault # Null
    /\ fault.op = "refresh"
    /\ fault.stmt = "update"
    /\ \E row \in sessions : row.refreshToken = fault.about

-----------------------------------------------------------------------------
(* The throttled routes, checked under SpecAuthRoutes *)

\* The limiter let the request through and counted it: the entry of its key
\* is one higher than the open entry it found, or is 1 in a window it opened.
Counted(h) ==
    /\ h.next = 1
    /\ h.after # Null
    /\ h.after.count = IF h.before # Null /\ h.before.resetAt > h.at
                       THEN h.before.count + 1 ELSE 1

\* C21: on the login, signup and forgot-password routes the rate-limit
\* check runs before the controller: a request the limiter blocked is
\* answered 429 and no handler runs after the limiter, so it reaches neither
\* the user lookup nor comparePassword; and every request whose controller
\* reached one of them passed the limiter first and was counted by it.
C21_LimiterBeforeController ==
    pipe # Null =>
        \A i \in DOMAIN pipe.ran :
            LET h == pipe.ran[i]
            IN /\ ((h.mw = "rateLimitAuth" /\ h.next = 0) =>
                      /\ res # Null /\ res.status = 429
                      /\ i = Len(pipe.ran)
                      /\ ~pipe.handled)
               /\ ((h.mw # "rateLimitAuth" /\ h.reached # {}) =>
                      \E j \in 1..(i - 1) :
                          /\ pipe.ran[j].mw = "rateLimitAuth"
                          /\ Counted(pipe.ran[j]))

\* The sixth login request of the client is blocked by the limiter after
\* five requests were counted in the window.
C21_Witness ==
    /\ pipe # Null
    /\ pipe.path = "/auth/login"
    /\ Len(pipe.ran) = 1
    /\ pipe.ran[1].mw = "rateLimitAuth"
    /\ pipe.ran[1].next = 0
    /\ pipe.ran[1].before.count = 5
    /\ res # Null /\ res.status = 429

\* C33: the counters of the throttled routes do not interfere.  A request
\* to a throttled endpoint is blocked only when the endpoint's own
\* maxAttempts requests from the address were already allowed in the
\* endpoint's own current window, and no endpoint allows more than its
\* maxAttempts requests of an address in one of its windows.
C33_RouteCountersIndependent ==
    chk # Null =>
        /\ (chk.next = 0 => chk.ownBefore >= chk.maxAttempts)
        /\ chk.own <= chk.maxAttempts

-----------------------------------------------------------------------------
(* UserController operations, checked under SpecUserOps *)

\* C34: requirePermission stops further processing.  When updateProfile,
\* changePassword, deleteAccount or listUsers is called with a role that
\* lacks the permission the operation requires, the call ends by throwing
\* with no statement sent to the users table or to the audit log: no user
\* record is read, updated or deleted, and the table is as it was.
C34_RequirePermissionStops ==
    (/\ resp # Null
     /\ resp.op \in {"updateProfile", "changePassword", "deleteAccount",
                     "listUsers"}
     /\ ~hasPermission(resp.role, RequiredPermission[resp.op])) =>
        /\ resp.end.thrown # Null
        /\ resp.did = <<>>
        /\ users = resp.found

\* A guest asked to delete the account of a user whose row exists, after a
\* user had deleted another account: the row is still there.
C34_Witness ==
    /\ resp # Null
    /\ resp.op = "deleteAccount"
    /\ resp.role = "guest"
    /\ resp.did = <<>>
    /\ findById(users, resp.userId) # Null
    /\ Cardinality(users) < Cardinality(UsersTable)

-----------------------------------------------------------------------------
(* SessionManager.validate, checked under SpecValidate *)

\* C35: validate(sessionId) returns a payload if and only if a session with
\* that id is stored, its expiry is in the future and the refresh token it
\* holds verifies as a refresh token; the payload is that token's; otherwise
\* it returns null; and the call changes no session.
C35_ValidateIffLiveAndVerified ==
    [][ (vr' # vr) =>
          LET live == {row \in sessions :
                          /\ row.id = vr'.sessionId
                          /\ row.expiresAt > now
                          /\ verifyToken(row.refreshToken, TRUE, now) # Null}
          IN /\ vr'.op = "validate"
             /\ (vr'.result # Null <=> live # {})
             /\ (\A row \in live :
                     vr'.result = verifyToken(row.refreshToken, TRUE, now))
             /\ sessions' = sessions
             /\ stored' = stored /\ destroyed' = destroyed ]_vars

\* validate has returned the payload of a stored session's refresh token
\* while another session was already past its expiry.
C35_Witness ==
    /\ vr # Null
    /\ vr.result # Null
    /\ \E row \in sessions : row.id = vr.sessionId /\ row.expiresAt > now
    /\ \E row \in sessions : row.expiresAt <= now


\* C36: the gate's outcome for an issued access token is the outcome that the
\* token, the access secret and the clock alone give: authenticateRequest
\* lets the request through exactly when the token verifies at that time and
\* attaches its payload, and requireRole decides by that payload's role,
\* whatever has become of the session the token was issued with.
C36_GateIgnoresSessions ==
    (pipe # Null /\ pipe.chain = <<"authenticateRequest", "requireRole">>
        /\ Len(pipe.ran) >= 1) =>
        LET token == slice(req.headers.authorization, 7)
            payload == verifyToken(token, FALSE, pipe.ran[1].at)
        IN /\ (pipe.ran[1].next = 1 <=> payload # Null)
           /\ (pipe.ran[1].next = 1 => req.user = payload)
           /\ (pipe.ran[1].next = 0 =>
                  res = Rejected(401, "Invalid or expired token"))
           /\ (Len(pipe.ran) = 2 =>
                  /\ (pipe.ran[2].next = 1 <=> payload.role \in pipe.ran[2].roles)
                  /\ (pipe.ran[2].next = 0 => res = Rejected(403, "Forbidden")))

\* The access token of a pair whose refresh token was rotated and whose session
\* was then destroyed passed authenticateRequest and reached requireRole.
C36_Witness ==
    /\ pipe # Null
    /\ Len(pipe.ran) = 2
    /\ pipe.ran[1].next = 1
    /\ req.user # Null
    /\ ~\E row \in sessions : row.userId = req.user.sub
    /\ \E i \in DOMAIN issued :
           /\ BearerPrefix \o issued[i].tokens.accessToken = req.headers.authorization
           /\ issued[i].tokens.refreshToken \in rotated

\* C37: the step in which a refresh call sends its UPDATE and returns the new
\* pair changes nothing of the sessions table but the refresh token of the
\* rows that held the presented token: the rows keep their id, user id,
\* expiry and creation time, every other row is as it was, and no row is
\* added or removed.
C37_RefreshFrame ==
    [][ \A p \in Procs :
          (IF calls[p] = Null THEN FALSE
           ELSE calls[p].pc = "update" /\ calls'[p] = Null /\ ret' # Null) =>
              LET c == calls[p]
                  held == {row \in sessions : row.refreshToken = c.token}
              IN /\ ret'.result = c.newTokens
                 /\ {row.id : row \in sessions'} = {row.id : row \in sessions}
                 /\ Cardinality(sessions') = Cardinality(sessions)
                 /\ sessions \ held \subseteq sessions'
                 /\ \A row \in held :
                        [id |-> row.id, userId |-> row.userId,
                         refreshToken |-> c.newTokens.refreshToken,
                         expiresAt |-> row.expiresAt,
                         createdAt |-> row.createdAt] \in sessions'
                 /\ Cardinality(held) <= 1 ]_vars

\* A refresh returned a pair whose refresh token is now stored in a session
\* created before the return, next to another user's session, and that
\* session's expiry is still the one set at login.
C37_Witness ==
    /\ ret # Null
    /\ ret.result # Null
    /\ \E row \in sessions :
           /\ row.refreshToken = ret.result.refreshToken
           /\ row.createdAt < now
           /\ row.expiresAt = row.createdAt + ret.result.expiresIn * 1000
           /\ \E other \in sessions : other.userId # row.userId

\* C38: a POST /auth/logout that passed authenticateRequest for user U has
\* deleted no session whose userId is not U, whatever session id its body
\* carried.
C38_LogoutOwnSessionOnly ==
    (pipe # Null /\ pipe.chain = <<"authenticateRequest", "logout">>
        /\ pipe.handled) =>
        \A row \in pipe.ran[2].before \ sessions : row.userId = req.user.sub

\* C39: of the steps of the /auth routes, only a login or signup handler that
\* answers success changes the sessions table, and it adds exactly one row,
\* holding the refresh token of the pair in its answer; a handler that
\* answers "Invalid credentials" (401), a validation failure (400) or
\* "Email already in use" (409) leaves the sessions and the users tables as
\* they were.
C39_SessionsOnlyOnSuccess ==
    [][ LET handler == IF pipe' = Null \/ pipe = Null THEN FALSE
                       ELSE pipe'.handled /\ ~pipe.handled
            answer == res'.body
        IN /\ (sessions' # sessions =>
                  /\ handler
                  /\ answer.success
                  /\ answer.statusCode \in {200, 201}
                  /\ pipe.path \in {"/auth/login", "/auth/signup"})
           /\ (handler /\ ~answer.success =>
                  /\ answer.statusCode \in {400, 401, 409}
                  /\ sessions' = sessions
                  /\ users' = users)
           /\ (handler /\ answer.success
                  /\ pipe.path \in {"/auth/login", "/auth/signup"} =>
                  /\ sessions \subseteq sessions'
                  /\ Cardinality(sessions' \ sessions) = 1
                  /\ \A row \in sessions' \ sessions :
                         /\ row.refreshToken = answer.data.refreshToken
                         /\ row.id \notin {r.id : r \in sessions}
                         /\ row.userId =
                                decodeToken(answer.data.refreshToken).sub) ]_vars

\* A signup was answered 201 after an earlier login had succeeded: two
\* sessions are stored, one of them holding the refresh token just returned,
\* and the third or a later request of the run made it, so a request that
\* was not answered with a pair left no session.
C39_Witness ==
    /\ pipe # Null
    /\ pipe.handled
    /\ res.status = 201
    /\ Cardinality(sessions) = 2
    /\ pipe.n >= 3
    /\ \E row \in sessions : row.refreshToken = res.body.data.refreshToken

\* The permission the controller demands behind each user-administration
\* route: listUsers calls requirePermission(role, ListUsers), getUserById
\* tests hasPermission(requestingRole, ReadAnyProfile).
DemandedPermission ==
    [op \in {"listUsers", "getUserById"} |->
        IF op = "listUsers" THEN "list:users" ELSE "read:any_profile"]

\* C40: on GET /users and GET /users/:id the roles that requireRole lets
\* through are exactly the roles that hold the permission the controller
\* then demands, and a request that passed the role gate of such a route was
\* not refused by the controller: nothing was thrown and the answer is not
\* 403.
C40_RoleGateAgreesWithPermissions ==
    /\ \A r \in UserRoutes :
           r.op \in DOMAIN DemandedPermission =>
               /\ r.chain = <<"authenticateRequest", "requireRole">>
               /\ \A role \in UserRole :
                      role \in r.roles <=>
                          hasPermission(role, DemandedPermission[r.op])
    /\ (UserRouteRan /\ pipe.op \in DOMAIN DemandedPermission) =>
           /\ pipe.ran[2].mw = "requireRole"
           /\ pipe.ran[2].next = 1
           /\ req.user.role \in pipe.ran[2].roles
           /\ pipe.thrown = Null
           /\ res.status \in {200, 404}

\* A moderator's GET /users passed requireRole(Admin, Moderator) and listUsers
\* answered 200.
C40_Witness ==
    /\ UserRouteRan
    /\ pipe.op = "listUsers"
    /\ req.user.role = "moderator"
    /\ pipe.ran[2].roles = {"admin", "moderator"}
    /\ res.status = 200
=============================================================================
